---------------------------- MODULE Spec2Model ----------------------------
(***************************************************************************)
(* The Nataf joint-distribution engine (ERANataf): construction           *)
(* (validation of the inputs, pairwise fill of the standard-normal        *)
(* correlation matrix Rho_Z, Cholesky factor A) and the operations X2U,   *)
(* U2X, random, pdf and cdf on a constructed engine.                      *)
(*                                                                         *)
(* Real numbers are fixed-point integers: the integer v stands for the    *)
(* value v / Scale.  Products, quotients and square roots are computed in *)
(* two limbs of Kilo so that no intermediate exceeds 32 bits.  Two        *)
(* integers outside the value range stand for the non-numbers nan and     *)
(* -inf of IEEE arithmetic.                                               *)
(***************************************************************************)
EXTENDS Integers, Sequences, FiniteSets, TLC

\* ------------------------------------------------------------------------
\* Fixed-point arithmetic
\* ------------------------------------------------------------------------
Kilo == 10 * 100
Scale == Kilo * Kilo
One == Scale
\* values saturate at +-MaxVal (40.0)
MaxVal == 40 * Scale
\* the non-numbers: nan (np.log of a negative number), -inf (np.log(0)), +inf
NaN == 0 - 2000000001
NegInf == 0 - 2000000002
PosInf == 0 - NegInf

\* np.isfinite
IsNum(x) == x # NaN /\ x # NegInf /\ x # PosInf

Abs(x) == IF x < 0 THEN 0 - x ELSE x

Sat(x) == IF x > MaxVal THEN MaxVal ELSE IF x < 0 - MaxVal THEN 0 - MaxVal ELSE x

\* floor(a * b / Scale) for 0 <= a, b <= MaxVal
MulU(a, b) ==
    LET ah == a \div Kilo
        al == a % Kilo
        bh == b \div Kilo
        bl == b % Kilo
    IN  ah * bh + ((ah * bl + al * bh + ((al * bl) \div Kilo)) \div Kilo)

\* a * b, rounded toward zero; nan if an operand is no number
Mul(a, b) ==
    IF ~IsNum(a) \/ ~IsNum(b) THEN NaN
    ELSE LET p == Sat(MulU(Abs(Sat(a)), Abs(Sat(b))))
         IN  IF (a < 0) = (b < 0) THEN p ELSE 0 - p

\* floor(a * Scale / b) for a >= 0, 0 < b < 2147 * Kilo, saturated
DivU(a, b) ==
    LET q0 == a \div b
        r0 == a % b
        r1 == r0 * Kilo
        q1 == r1 \div b
        r2 == r1 % b
        q2 == (r2 * Kilo) \div b
    IN  IF q0 >= 40 THEN MaxVal ELSE Sat(q0 * Scale + q1 * Kilo + q2)

\* a / b, rounded toward zero; nan if an operand is no number or b = 0
Div(a, b) ==
    IF ~IsNum(a) \/ ~IsNum(b) \/ b = 0 THEN NaN
    ELSE LET q == DivU(Abs(Sat(a)), Abs(b))
         IN  IF (a < 0) = (b < 0) THEN q ELSE 0 - q

Add(a, b) == IF ~IsNum(a) \/ ~IsNum(b) THEN NaN ELSE Sat(a + b)

Sub(a, b) == IF ~IsNum(a) \/ ~IsNum(b) THEN NaN ELSE Sat(a - b)

\* r * r <= a * Scale, compared in two limbs (0 <= r <= 6400 * Kilo, a >= 0)
SqLeq(r, a) ==
    LET rh == r \div Kilo
        rl == r % Kilo
        t == 2 * rh * rl + ((rl * rl) \div Kilo)
        hi == rh * rh + (t \div Kilo)
        lo == (t % Kilo) * Kilo + ((rl * rl) % Kilo)
    IN  hi < a \/ (hi = a /\ lo = 0)

RECURSIVE SqrtSearch(_, _, _)
\* the largest r in lo..hi with r * r <= a * Scale (bisection)
SqrtSearch(a, lo, hi) ==
    IF lo >= hi THEN lo
    ELSE LET mid == (lo + hi + 1) \div 2
         IN  IF SqLeq(mid, a) THEN SqrtSearch(a, mid, hi)
             ELSE SqrtSearch(a, lo, mid - 1)

\* np.sqrt: floor(sqrt(a)) in fixed point; nan for a negative or non-number
Sqrt(a) ==
    IF ~IsNum(a) \/ a < 0 THEN NaN
    ELSE SqrtSearch(Sat(a), 0, 6400 * Kilo)

\* 2 (y + y^3/3 + y^5/5 + y^7/7 + y^9/9), y2 being y * y
LnSeries(y, y2) ==
    2 * Mul(y, One + Mul(y2, 333333 + Mul(y2, 200000 + Mul(y2, 142857 + (y2 \div 9)))))

\* ln x for x in [0.75, 1.5], with y = (x - 1) / (x + 1)
LnNear(y) == LnSeries(y, Mul(y, y))

RECURSIVE LnPos(_)
\* np.log of a positive number: halve or double into [0.75, 1.5]
LnPos(x) ==
    IF x > One + (One \div 2) THEN LnPos(x \div 2) + 693147
    ELSE IF 4 * x < 3 * One THEN LnPos(2 * x) - 693147
    ELSE LnNear(Div(x - One, x + One))

\* np.log: nan below zero, -inf at zero
Ln(x) ==
    IF ~IsNum(x) THEN NaN
    ELSE IF x < 0 THEN NaN
    ELSE IF x = 0 THEN NegInf
    ELSE LnPos(x)

\* ------------------------------------------------------------------------
\* Matrices: a matrix is a sequence of rows; indices are 0-based as in the
\* source, At(M, i, j) is M[i, j]
\* ------------------------------------------------------------------------
NRows(M) == Len(M)
NCols(M) == IF Len(M) = 0 THEN 0 ELSE Len(M[1])
At(M, i, j) == M[i + 1][j + 1]
InShape(M, i, j) == i >= 0 /\ i < NRows(M) /\ j >= 0 /\ j < NCols(M)
Put(M, i, j, v) == [M EXCEPT ![i + 1][j + 1] = v]
IsSquare(M) == NRows(M) = NCols(M)

\* np.identity(n)
Identity(n) == [r \in 1..n |-> [c \in 1..n |-> IF r = c THEN One ELSE 0]]
Zeros(r, c) == [a \in 1..r |-> [b \in 1..c |-> 0]]

RECURSIVE DotRows(_, _, _, _)
\* sum over k < n of L[i, k] * L[j, k]
DotRows(L, i, j, n) ==
    IF n = 0 THEN 0
    ELSE Add(DotRows(L, i, j, n - 1), Mul(At(L, i, n - 1), At(L, j, n - 1)))

RECURSIVE CholFill(_, _, _, _, _)
\* the factorization from entry (i, j) of the lower triangle on, row by row;
\* only the lower triangle of M is read; it fails at the first pivot that
\* is not positive. A pivot that is nan fails the test "p <= 0 or p is nan"
\* of the reference LAPACK, and passes the test "p <= 0" of other builds,
\* which go on with sqrt(nan): lax tells which
CholFill(M, L, i, j, lax) ==
    IF i = NRows(M) THEN [ok |-> TRUE, L |-> L]
    ELSE LET s == DotRows(L, i, j, j)
         IN  IF j = i
             THEN LET p == Sub(At(M, i, i), s)
                  IN  IF (IsNum(p) /\ p <= 0) \/ (~IsNum(p) /\ ~lax)
                      THEN [ok |-> FALSE, L |-> L]
                      ELSE CholFill(M, Put(L, i, i, Sqrt(p)), i + 1, 0, lax)
             ELSE CholFill(M, Put(L, i, j, Div(Sub(At(M, i, j), s), At(L, j, j))),
                           i, j + 1, lax)

\* np.linalg.cholesky: LinAlgError (ok = FALSE) for a matrix that is not
\* square or not positive definite, else the lower-triangular factor
CholeskyBy(M, lax) ==
    IF ~IsSquare(M) THEN [ok |-> FALSE, L |-> << >>]
    ELSE CholFill(M, Zeros(NRows(M), NRows(M)), 0, 0, lax)

\* the factorization of a matrix of numbers, the same on every build
Cholesky(M) == CholeskyBy(M, FALSE)

\* np.all(Rho_X - Rho_X.T == 0), for a square matrix
IsSymmetric(M) ==
    \A r \in 0..(NRows(M) - 1) : \A c \in 0..(NCols(M) - 1) : At(M, r, c) = At(M, c, r)

\* np.all(np.diag(Rho_X) == 1)
HasUnitDiag(M) == \A r \in 0..(NRows(M) - 1) : At(M, r, r) = One

\* whether shapes [m, m] and [n, n] broadcast together
Broadcasts(m, n) == m = n \/ m = 1 \/ n = 1

\* entry (r, c) of Rho_X - np.identity(n), broadcast to the larger shape
DiffEntry(M, n, r, c) ==
    LET x == At(M, IF NRows(M) = 1 THEN 0 ELSE r, IF NCols(M) = 1 THEN 0 ELSE c)
        e == IF n = 1 THEN One ELSE IF r = c THEN One ELSE 0
    IN  x - e

\* 10 ** (-5), in units of 1 / Scale
NormTol == Scale \div 100000

RECURSIVE SumSq(_)
SumSq(xs) == IF xs = << >> THEN 0 ELSE Head(xs) * Head(xs) + SumSq(Tail(xs))

\* np.linalg.norm(Rho_X - np.identity(n_dist)) > 10 ** (-5): the Frobenius
\* norm, compared by its square
NormExceeds(M, n) ==
    LET k == IF NRows(M) > n THEN NRows(M) ELSE n
        es == [q \in 1..(k * k) |-> DiffEntry(M, n, (q - 1) \div k, (q - 1) % k)]
    IN  \/ \E q \in 1..(k * k) : Abs(es[q]) > NormTol
        \/ SumSq(es) > NormTol * NormTol

\* ------------------------------------------------------------------------
\* Marginal distributions (ERADist objects): the family tag Name and the
\* moments mean() and std()
\* ------------------------------------------------------------------------
StdNormalDist == [Name |-> "standardnormal", mean |-> 0, std |-> One]
NormalDist == [Name |-> "normal", mean |-> One, std |-> 2 * One]
LogNormalDist == [Name |-> "lognormal", mean |-> One, std |-> 2 * One]
UniformDist == [Name |-> "uniform", mean |-> One \div 2, std |-> 288675]
PoissonDist == [Name |-> "poisson", mean |-> 2 * One, std |-> 1414213]
ParetoDist == [Name |-> "pareto", mean |-> 2 * One, std |-> PosInf]

\* std() / mean() of a marginal
CoefVar(m) == Div(m.std, m.mean)

\* the families X2U and pdf refuse
\* the list of lines 288-293 with its last name left out
DiscreteNamesShort == {"binomial", "geometric", "negativebinomial"}
\* lines 288-293 and 392-397
DiscreteNames == {"binomial", "geometric", "negativebinomial", "poisson"}

\* scipy.stats.norm.cdf and norm.pdf at 0, 0.5, ..., 5; between the knots the
\* functions are interpolated linearly
PhiKnots ==
    <<500000, 691462, 841345, 933193, 977250, 993790, 998650, 999767, 999968,
      999997, 1000000>>
DensityKnots ==
    <<398942, 352065, 241971, 129518, 53991, 17528, 4432, 873, 134, 16, 1>>

Interpolate(knots, z) ==
    LET seg == z \div (One \div 2)
        frac == z % (One \div 2)
        lo == knots[seg + 1]
        hi == knots[seg + 2]
    IN  lo + Mul(hi - lo, 2 * frac)

\* stats.norm.cdf
NormCdf(z) ==
    IF z = NaN THEN NaN
    ELSE IF z = NegInf THEN 0
    ELSE IF z = PosInf THEN One
    ELSE IF Abs(z) >= 5 * One THEN (IF z < 0 THEN 0 ELSE One)
    ELSE IF z < 0 THEN One - Interpolate(PhiKnots, 0 - z)
    ELSE Interpolate(PhiKnots, z)

\* the inverse of Interpolate(PhiKnots, .) on [0.5, 1)
PpfUpper(p) ==
    LET seg == CHOOSE q \in 1..10 : PhiKnots[q] <= p /\ p < PhiKnots[q + 1]
        lo == PhiKnots[seg]
        hi == PhiKnots[seg + 1]
    IN  (seg - 1) * (One \div 2) + Mul(Div(p - lo, hi - lo), One \div 2)

\* stats.norm.ppf
NormPpf(p) ==
    IF ~IsNum(p) \/ p < 0 \/ p > One THEN NaN
    ELSE IF p = 0 THEN NegInf
    ELSE IF p = One THEN PosInf
    ELSE IF 2 * p < One THEN 0 - PpfUpper(One - p)
    ELSE PpfUpper(p)

\* stats.norm.pdf
NormPdf(z) ==
    IF z = NaN THEN NaN
    ELSE IF ~IsNum(z) \/ Abs(z) >= 5 * One THEN 0
    ELSE Interpolate(DensityKnots, Abs(z))

RECURSIVE Doubled(_, _)
\* v * 2 ^ n, saturated
Doubled(v, n) ==
    IF n = 0 THEN v
    ELSE IF n > 0 THEN Doubled(Sat(2 * v), n - 1)
    ELSE Doubled(v \div 2, n + 1)

\* exp(r) for |r| <= ln(2) / 2, by its series
ExpSeries(r) ==
    One + Mul(r, One + Mul(r, 500000 + Mul(r, 166667 + Mul(r, 41667 +
                Mul(r, 8333 + (r \div 720))))))

\* exp(n ln 2 + r)
ExpSplit(n, x) ==
    IF n > 6 THEN MaxVal ELSE IF n < 0 - 20 THEN 0
    ELSE Doubled(ExpSeries(x - n * 693147), n)

\* np.exp: x = n ln 2 + r with |r| <= ln(2) / 2
Exp(x) ==
    IF x = NaN THEN NaN
    ELSE IF x = NegInf THEN 0
    ELSE IF x = PosInf THEN PosInf
    ELSE ExpSplit(IF x >= 0 THEN (x + 346573) \div 693147
                  ELSE 0 - ((346573 - x) \div 693147), x)

\* the parameters of the lognormal law with the moments of LogNormalDist
Squared(v) == Mul(v, v)
LogSigma(m) == Sqrt(Ln(Add(One, Squared(CoefVar(m)))))
LogMu(m) == Sub(Ln(m.mean), Squared(LogSigma(m)) \div 2)

\* the Poisson law of mean 2: its cdf at 0, 1, ..., 11
PoissonCdf ==
    <<135335, 406006, 676676, 857123, 947347, 983436, 995466, 998903, 999763,
      999954, 999992, 999999>>

\* ERADist.cdf
MargCdf(m, x) ==
    IF x = NaN THEN NaN
    ELSE CASE m.Name = "standardnormal" -> NormCdf(x)
           [] m.Name = "normal" ->
                IF IsNum(x) THEN NormCdf(Div(Sub(x, m.mean), m.std)) ELSE NormCdf(x)
           [] m.Name = "uniform" ->
                IF x = NegInf \/ (IsNum(x) /\ x < 0) THEN 0
                ELSE IF x = PosInf \/ x > One THEN One ELSE x
           [] m.Name = "lognormal" ->
                IF x = NegInf \/ (IsNum(x) /\ x <= 0) THEN 0
                ELSE IF x = PosInf THEN One
                ELSE NormCdf(Div(Sub(Ln(x), LogMu(m)), LogSigma(m)))
           [] m.Name = "poisson" ->
                IF x = NegInf \/ (IsNum(x) /\ x < 0) THEN 0
                ELSE IF x = PosInf \/ x \div One >= 12 THEN One
                ELSE PoissonCdf[(x \div One) + 1]
           [] OTHER -> NaN

\* ERADist.icdf
MargIcdf(m, p) ==
    IF ~IsNum(p) \/ p < 0 \/ p > One THEN NaN
    ELSE CASE m.Name = "standardnormal" -> NormPpf(p)
           [] m.Name = "normal" ->
                IF p = 0 \/ p = One THEN NormPpf(p)
                ELSE Add(m.mean, Mul(m.std, NormPpf(p)))
           [] m.Name = "uniform" -> p
           [] m.Name = "lognormal" ->
                IF p = 0 THEN 0
                ELSE IF p = One THEN PosInf
                ELSE Exp(Add(LogMu(m), Mul(LogSigma(m), NormPpf(p))))
           [] m.Name = "poisson" ->
                IF p > PoissonCdf[12] THEN PosInf
                ELSE One * ((CHOOSE q \in 1..12 :
                               /\ PoissonCdf[q] >= p
                               /\ \A q2 \in 1..(q - 1) : PoissonCdf[q2] < p) - 1)
           [] OTHER -> NaN

\* ERADist.pdf
MargPdf(m, x) ==
    IF x = NaN THEN NaN
    ELSE IF ~IsNum(x) THEN 0
    ELSE CASE m.Name = "standardnormal" -> NormPdf(x)
           [] m.Name = "normal" -> Div(NormPdf(Div(Sub(x, m.mean), m.std)), m.std)
           [] m.Name = "uniform" -> IF x < 0 \/ x > One THEN 0 ELSE One
           [] m.Name = "lognormal" ->
                IF x <= 0 THEN 0
                ELSE Div(NormPdf(Div(Sub(Ln(x), LogMu(m)), LogSigma(m))),
                         Mul(x, LogSigma(m)))
           [] m.Name = "poisson" ->
                IF x < 0 \/ x % One # 0 \/ x \div One >= 12 THEN 0
                ELSE IF x = 0 THEN PoissonCdf[1]
                ELSE PoissonCdf[(x \div One) + 1] - PoissonCdf[x \div One]
           [] OTHER -> NaN

\* ------------------------------------------------------------------------
\* Arrays: a shape and the entries in row-major order
\* ------------------------------------------------------------------------
NoArr == [shape |-> << >>, data |-> << >>]
Ndim(a) == Len(a.shape)

\* np.array(X, ndmin=2): a copy with at least two dimensions
AtLeast2d(a) ==
    IF Ndim(a) = 0 THEN [shape |-> <<1, 1>>, data |-> a.data]
    ELSE IF Ndim(a) = 1 THEN [shape |-> <<1, a.shape[1]>>, data |-> a.data]
    ELSE a

\* X[r, c] of a two-dimensional array
Get(a, r, c) == a.data[r * a.shape[2] + c + 1]

\* X.T of a two-dimensional array
Transposed(a) ==
    [shape |-> <<a.shape[2], a.shape[1]>>,
     data |-> [q \in 1..Len(a.data) |->
                 Get(a, (q - 1) % a.shape[1], (q - 1) \div a.shape[1])]]

\* np.squeeze: the axes of length 1 are dropped
Squeeze(a) ==
    [shape |-> SelectSeq(a.shape, LAMBDA n : n # 1), data |-> a.data]

\* the array with the given shape whose entry (r, c) is f[r][c] (1-based)
FromRows(nr, nc, f) ==
    [shape |-> <<nr, nc>>,
     data |-> [q \in 1..(nr * nc) |-> f[((q - 1) \div nc) + 1][((q - 1) % nc) + 1]]]

RECURSIVE DotPrefix(_, _, _, _)
\* sum over c < n of L[r, c] * u[c + 1]
DotPrefix(L, r, u, n) ==
    IF n = 0 THEN 0
    ELSE Add(DotPrefix(L, r, u, n - 1), Mul(At(L, r, n - 1), u[n]))

RECURSIVE SolveRows(_, _, _)
\* the first n components of the solution u of L u = b, L lower triangular
SolveRows(L, b, n) ==
    IF n = 0 THEN << >>
    ELSE LET u == SolveRows(L, b, n - 1)
         IN  Append(u, Div(Sub(b[n], DotPrefix(L, n - 1, u, n - 1)), At(L, n - 1, n - 1)))

\* np.linalg.solve(A, b) for a vector b
SolveVec(L, b) == SolveRows(L, b, Len(b))

\* A @ u for a vector u
MatVec(L, u) == [r \in 1..Len(L) |-> DotPrefix(L, r - 1, u, Len(u))]

\* whether np.linalg.solve takes b: a vector of A's size, or a matrix with
\* as many rows as A
SolveTakes(L, b) ==
    \/ Ndim(b) = 1 /\ b.shape[1] = Len(L)
    \/ Ndim(b) = 2 /\ b.shape[1] = Len(L)

\* ------------------------------------------------------------------------
\* Bounds of the model
\* ------------------------------------------------------------------------
\* largest number of marginals of an engine
MaxDim == 3

\* ------------------------------------------------------------------------
\* Inputs of the constructor
\* ------------------------------------------------------------------------
Tiny == One \div 200000
Half == One \div 2
NineTenths == 9 * (One \div 10)

Sym2(a) == << <<One, a>>, <<a, One>> >>

\* correlation matrices offered with one marginal
Corr1 == { << <<One>> >>, << <<Half>> >>, Sym2(Half), << <<One, Half>> >> }

\* correlation matrices offered with two marginals: valid ones, one that is
\* not positive definite, asymmetric ones, ones with a diagonal entry that
\* is not 1, and a 1 x 1 matrix
Corr2 ==
    { Sym2(a) : a \in {0, Tiny, Half, 0 - Half, NineTenths, One} }
    \cup { << <<One, Half>>, <<One \div 5, One>> >>,
           << <<One, One \div 5>>, <<11 * (One \div 10), One>> >>,
           << <<2 * One, Half>>, <<Half, One>> >>,
           << <<One, Half>>, <<Half, 0>> >>,
           << <<2 * One, Half>>, <<0, One>> >>,
           << <<One>> >> }

\* symmetric unit-diagonal matrices of dimension n whose off-diagonal
\* entries are drawn from vals, at most two pairs being nonzero
SymMats(n, vals) ==
    LET pairs == { p \in (0..(n - 1)) \X (0..(n - 1)) : p[1] < p[2] }
        assigns == { f \in [pairs -> vals \cup {0}] :
                        Cardinality({ p \in pairs : f[p] # 0 }) <= 2 }
    IN  { [r \in 1..n |-> [c \in 1..n |->
              IF r = c THEN One
              ELSE IF r < c THEN f[<<r - 1, c - 1>>] ELSE f[<<c - 1, r - 1>>]]] :
          f \in assigns }

\* sequences of n normal or uniform marginals; beyond three marginals at
\* most one of them is uniform
MargSeqs(n) ==
    IF n <= 3 THEN [1..n -> {NormalDist, UniformDist}]
    ELSE { [q \in 1..n |-> IF q = u THEN UniformDist ELSE NormalDist] : u \in 0..n }

\* the constructor calls: one or two marginals of any family with the
\* matrices above; normal, uniform and lognormal marginals in this order
\* with small and moderate correlations; three or more normal or uniform
\* marginals with moderate correlations
Inputs ==
    { [M |-> <<m>>, C |-> c] :
        m \in {StdNormalDist, NormalDist, LogNormalDist, UniformDist, PoissonDist, ParetoDist},
        c \in Corr1 }
    \cup { [M |-> <<m1, m2>>, C |-> c] :
        m1 \in {StdNormalDist, NormalDist, LogNormalDist, UniformDist, PoissonDist, ParetoDist},
        m2 \in {StdNormalDist, NormalDist, LogNormalDist, UniformDist, PoissonDist, ParetoDist},
        c \in Corr2 }
    \cup { [M |-> <<NormalDist, UniformDist, LogNormalDist>>, C |-> c] :
        c \in SymMats(3, {Half, Tiny}) }
    \cup UNION { { [M |-> ms, C |-> c] :
                    ms \in MargSeqs(n),
                    c \in SymMats(n, {Half}) } : n \in 3..MaxDim }

\* what a root-finder may return as the root
SolVals == {3 * (One \div 10), 0 - 7 * (One \div 10)}

\* what brentq may do: return a converged root, return unconverged, raise
BrentOutcomes ==
    { [kind |-> "converged", x |-> v] : v \in SolVals }
    \cup { [kind |-> "unconverged", x |-> 0], [kind |-> "raised", x |-> 0] }

\* what fsolve may return: ier = 1 with a root, or another ier
FsolveOutcomes ==
    { [kind |-> "converged", x |-> v] : v \in SolVals }
    \cup { [kind |-> "unconverged", x |-> 0] }

\* ------------------------------------------------------------------------
\* State
\* ------------------------------------------------------------------------
VARIABLES
    pc,         \* where the constructor stands, then "ready" or "failed"
    err,        \* the error that ended the constructor, "" if none
    Marginals,  \* self.Marginals
    Rho_X,      \* self.Rho_X
    Rho_Z,      \* self.Rho_Z, << >> before it is assigned
    A,          \* self.A, << >> before it is assigned
    row,        \* the value the outer loop's iterator gave last
    i,          \* the local variable i
    j,          \* the local variable j
    k,          \* the value the restart loop's iterator gives next
    pair,       \* the pair (i, j) as it was when its root-finding began
    calls,      \* the root-finders invoked for that pair so far
    stored,     \* the last root stored by a root-finder: where (at), for which
                \* pair of the loops (for) and which call found it (by)
    seen,       \* the pairs (i, j) the pair loops have entered so far
    nquad,      \* how many times the quadrature table was computed
    nchol,      \* how many times the factor A was computed
    arg,        \* the array the caller holds and passes to the next call
    orig,       \* the array X whose X2U image the caller holds in arg, if any
    last,       \* the last call on the engine and what it gave back
    drawn,      \* how many values np.random.rand has given out so far
    flight,     \* the calls under way on the engine, by caller
    rv,         \* the random variable object of pdfs.py under test
    got         \* the last call on that object and what it gave back

ctor == <<pc, err, row, i, j, k, pair, calls, stored, seen, nquad, nchol>>
engine == <<Marginals, Rho_X, Rho_Z, A>>
ops == <<arg, orig, last>>
side == <<flight, rv, got>>
vars == <<ctor, engine, ops, drawn, side>>

n_dist == Len(Marginals)

\* no root stored yet, no call made yet
NoStore == [at |-> << >>, for |-> << >>, by |-> ""]
NoCall == [op |-> "", jac |-> FALSE, ret |-> NoArr, J |-> << >>, err |-> "", msg |-> ""]

\* the callers of a shared engine, none of them in a call
Callers == {"a", "b"}
NotCalling ==
    [at |-> "idle", op |-> "", x |-> NoArr, jac |-> FALSE,
     M |-> << >>, L |-> << >>, Z |-> << >>, out |-> NoCall]
NoFlight == [c \in Callers |-> NotCalling]

\* no object of pdfs.py made yet, no call on one made yet
NoRv == [class |-> ""]
NoOut == [op |-> "", x |-> 0, ret |-> << >>, err |-> ""]

\* lines 87-90: a constructor call with one of the given inputs
Called(inputs) ==
    /\ \E inp \in inputs : Marginals = inp.M /\ Rho_X = inp.C
    /\ pc = "moments"
    /\ err = ""
    /\ Rho_Z = << >>
    /\ A = << >>
    /\ row = 0 - 1
    /\ i = 0 - 1
    /\ j = 0 - 1
    /\ k = 0
    /\ pair = << >>
    /\ calls = << >>
    /\ stored = NoStore
    /\ seen = {}
    /\ nquad = 0
    /\ nchol = 0
    /\ arg = NoArr
    /\ orig = NoArr
    /\ last = NoCall
    /\ drawn = 0
    /\ flight = NoFlight
    /\ rv = NoRv
    /\ got = NoOut

Init == Called(Inputs)

\* an exception leaves the constructor: no engine is returned
Raise(e) == pc' = "failed" /\ err' = e

\* the test of lines 94-97 with the standard deviation left out
MomentsOkMean(ms) == \A q \in 1..Len(ms) : IsNum(ms[q].mean)
\* lines 93-97
MomentsOk(ms) ==
    \A q \in 1..Len(ms) : IsNum(ms[q].mean) /\ IsNum(ms[q].std)

\* lines 92-101
CheckMoments ==
    /\ pc = "moments"
    /\ IF MomentsOk(Marginals)
       THEN pc' = "correlation" /\ err' = err
       ELSE Raise("InvalidMoments")
    /\ UNCHANGED <<row, i, j, k, pair, calls, stored, nquad, nchol, engine, ops, drawn, side, seen>>

\* the three requirements on the correlation matrix, as line 105, line 111
\* and line 116 test them
CholeskyOk(M) == Cholesky(M).ok
\* the symmetry test with np.any in the place of np.all
SymmetricOkAny(M) ==
    \E r \in 0..(NRows(M) - 1) : \E c \in 0..(NCols(M) - 1) : At(M, r, c) = At(M, c, r)
\* line 111
SymmetricOk(M) == IsSymmetric(M)
UnitDiagOk(M) == HasUnitDiag(M)

\* the three tests with the unit diagonal tested first
CorrelationErrorDiagonalFirst(M) ==
    IF IsSquare(M) /\ ~UnitDiagOk(M) THEN "NotUnitDiagonal"
    ELSE IF ~CholeskyOk(M) THEN "NotPositiveDefinite"
    ELSE IF ~SymmetricOk(M) THEN "NotSymmetric"
    ELSE ""

\* lines 103-120: positive definite, then symmetric, then unit diagonal
CorrelationError(M) ==
    IF ~CholeskyOk(M) THEN "NotPositiveDefinite"
    ELSE IF ~SymmetricOk(M) THEN "NotSymmetric"
    ELSE IF ~UnitDiagOk(M) THEN "NotUnitDiagonal"
    ELSE ""

CheckCorrelation ==
    /\ pc = "correlation"
    /\ IF CorrelationError(Rho_X) = ""
       THEN pc' = "quadrature" /\ err' = err
       ELSE Raise(CorrelationError(Rho_X))
    /\ UNCHANGED <<row, i, j, k, pair, calls, stored, nquad, nchol, engine, ops, drawn, side, seen>>

\* loops left after the first pair
AdvanceEarly(iNow) == pc' = "cholesky" /\ row' = row /\ i' = iNow /\ j' = j

\* loops that stay at the pair they are at
AdvanceStuck(iNow) == pc' = "pair" /\ row' = row /\ i' = iNow /\ j' = j

\* the loops of lines 148-149 move on after the body of a pair ended; the
\* inner range was fixed when its row began, so a rebound i (iNow) stays
\* until the outer loop assigns i again
Advance(iNow) ==
    IF j + 1 < n_dist
    THEN pc' = "pair" /\ row' = row /\ i' = iNow /\ j' = j + 1
    ELSE IF row + 2 < n_dist
    THEN pc' = "pair" /\ row' = row + 1 /\ i' = row + 1 /\ j' = row + 2
    ELSE pc' = "cholesky" /\ row' = n_dist - 1 /\ i' = n_dist - 1 /\ j' = j

\* lines 127-147: the quadrature table, Rho_Z = identity, the identity test
BeginFill ==
    /\ pc = "quadrature"
    /\ nquad' = nquad + 1
    /\ Rho_Z' = Identity(n_dist)
    /\ IF ~Broadcasts(NRows(Rho_X), n_dist)
       THEN Raise("ValueError") /\ UNCHANGED <<row, i, j>>
       ELSE IF NormExceeds(Rho_X, n_dist) /\ n_dist >= 2
       THEN pc' = "pair" /\ row' = 0 /\ i' = 0 /\ j' = 1 /\ err' = err
       ELSE IF NormExceeds(Rho_X, n_dist)
       THEN pc' = "cholesky" /\ row' = 0 /\ i' = 0 /\ j' = j /\ err' = err
       ELSE pc' = "cholesky" /\ err' = err /\ UNCHANGED <<row, i, j>>
    /\ UNCHANGED <<k, pair, calls, stored, nchol, Marginals, Rho_X, A, ops, drawn, side, seen>>

\* lines 171-173 and 181-183
NormalLogNormal(rho, V) ==
    Div(Mul(rho, V), Sqrt(Ln(Add(One, Mul(V, V)))))

\* lines 192-194
LogNormalLogNormal(rho, Vi, Vj) ==
    Div(Ln(Add(One, Mul(Mul(rho, Vi), Vj))),
        Sqrt(Mul(Ln(Add(One, Mul(Vi, Vi))), Ln(Add(One, Mul(Vj, Vj))))))

\* lines 153-162: the pairs whose Rho_Z is Rho_X itself
BothNormal(mi, mj) ==
    \/ mi.Name = "standardnormal" /\ mj.Name = "standardnormal"
    \/ mi.Name = "normal" /\ mj.Name = "normal"

\* the branch of lines 150-198 a pair takes
PairPath(mi, mj, rho) ==
    IF rho = 0 THEN "skip"
    ELSE IF BothNormal(mi, mj) THEN "normal"
    ELSE IF mi.Name = "normal" /\ mj.Name = "lognormal" THEN "normal-lognormal"
    ELSE IF mi.Name = "lognormal" /\ mj.Name = "normal" THEN "lognormal-normal"
    ELSE IF mi.Name = "lognormal" /\ mj.Name = "lognormal" THEN "lognormal-lognormal"
    ELSE "solve"

\* Rho_Z[a, b] = v; Rho_Z[b, a] = Rho_Z[a, b]
StoreSym(Z, a, b, v) == Put(Put(Z, a, b, v), b, a, v)

\* lines 150-212: one pair of the fill, up to the first root-finder call
FillPair ==
    /\ pc = "pair"
    /\ IF ~InShape(Rho_X, i, j)
       THEN Raise("IndexError") /\ UNCHANGED <<row, i, j, Rho_Z, pair, calls, seen>>
       ELSE LET mi == Marginals[i + 1]
                mj == Marginals[j + 1]
                rho == At(Rho_X, i, j)
                path == PairPath(mi, mj, rho)
            IN  /\ err' = err
                /\ seen' = seen \cup {<<i, j>>}
                /\ IF path = "solve"
                   THEN /\ pc' = "brentq"
                        /\ pair' = <<i, j>>
                        /\ calls' = << >>
                        /\ UNCHANGED <<row, i, j, Rho_Z>>
                   ELSE /\ Advance(i)
                        /\ UNCHANGED <<pair, calls>>
                        /\ Rho_Z' =
                             CASE path = "skip" -> Rho_Z
                               [] path = "normal" ->
                                    Put(Put(Rho_Z, i, j, rho), j, i, At(Rho_X, j, i))
                               [] path = "normal-lognormal" ->
                                    StoreSym(Rho_Z, i, j, NormalLogNormal(rho, CoefVar(mj)))
                               [] path = "lognormal-normal" ->
                                    StoreSym(Rho_Z, i, j, NormalLogNormal(rho, CoefVar(mi)))
                               [] path = "lognormal-lognormal" ->
                                    StoreSym(Rho_Z, i, j,
                                             LogNormalLogNormal(rho, CoefVar(mi), CoefVar(mj)))
    /\ UNCHANGED <<k, stored, nquad, nchol, Marginals, Rho_X, A, ops, drawn, side>>

\* lines 214-222: brentq on (-1 + eps, 1 - eps)
Brentq ==
    /\ pc = "brentq"
    /\ calls' = Append(calls, "brentq")
    /\ \E out \in BrentOutcomes :
         IF out.kind = "raised"
         THEN Raise("BrentqError") /\ UNCHANGED <<row, i, j, Rho_Z, stored>>
         ELSE IF out.kind = "converged"
         THEN /\ Rho_Z' = StoreSym(Rho_Z, i, j, out.x)
              /\ stored' = [at |-> <<i, j>>, for |-> <<row, j>>, by |-> "brentq"]
              /\ Advance(i)
              /\ err' = err
         ELSE /\ pc' = "fsolve"
              /\ err' = err
              /\ UNCHANGED <<row, i, j, Rho_Z, stored>>
    /\ UNCHANGED <<k, pair, nquad, nchol, Marginals, Rho_X, A, ops, drawn, side, seen>>

\* lines 224-229: fsolve seeded at Rho_X[i, j]
FsolveSeeded ==
    /\ pc = "fsolve"
    /\ calls' = Append(calls, "fsolve(Rho_X)")
    /\ \E out \in FsolveOutcomes :
         IF out.kind = "converged"
         THEN /\ Rho_Z' = StoreSym(Rho_Z, i, j, out.x)
              /\ stored' = [at |-> <<i, j>>, for |-> <<row, j>>, by |-> "fsolve(Rho_X)"]
              /\ Advance(i)
         ELSE /\ pc' = "fsolve-negated"
              /\ UNCHANGED <<row, i, j, Rho_Z, stored>>
    /\ UNCHANGED <<err, k, pair, nquad, nchol, Marginals, Rho_X, A, ops, drawn, side, seen>>

\* lines 231-237: fsolve seeded at -Rho_X[i, j]
FsolveNegated ==
    /\ pc = "fsolve-negated"
    /\ calls' = Append(calls, "fsolve(-Rho_X)")
    /\ \E out \in FsolveOutcomes :
         IF out.kind = "converged"
         THEN /\ Rho_Z' = StoreSym(Rho_Z, i, j, out.x)
              /\ stored' = [at |-> <<i, j>>, for |-> <<row, j>>, by |-> "fsolve(-Rho_X)"]
              /\ Advance(i)
              /\ k' = k
         ELSE /\ pc' = "restart"
              /\ k' = 0
              /\ UNCHANGED <<row, i, j, Rho_Z, stored>>
    /\ UNCHANGED <<err, pair, nquad, nchol, Marginals, Rho_X, A, ops, drawn, side, seen>>

\* range(10) of line 238
Restarts == 10

\* lines 238-254: one pass of "for i in range(10)": the loop assigns i, the
\* solver evaluates fun, which reads Rho_X[i, j] with that i; on ier = 1 the
\* loop breaks and the root is stored at [i, j]; after the last pass without
\* a root the constructor raises
Restart ==
    /\ pc = "restart"
    /\ calls' = Append(calls, "fsolve(random)")
    /\ IF ~InShape(Rho_X, k, j)
       THEN /\ Raise("IndexError")
            /\ i' = k
            /\ UNCHANGED <<row, j, k, Rho_Z, stored>>
       ELSE \E out \in FsolveOutcomes :
              IF out.kind = "converged"
              THEN /\ Rho_Z' = StoreSym(Rho_Z, k, j, out.x)
                   /\ stored' = [at |-> <<k, j>>, for |-> <<row, j>>, by |-> "fsolve(random)"]
                   /\ Advance(k)
                   /\ err' = err
                   /\ k' = k
              ELSE IF k + 1 < Restarts
              THEN /\ k' = k + 1
                   /\ i' = k
                   /\ UNCHANGED <<pc, err, row, j, Rho_Z, stored>>
              ELSE /\ Raise("NatafNotSolved")
                   /\ i' = k
                   /\ UNCHANGED <<row, j, k, Rho_Z, stored>>
    /\ drawn' = drawn + 1
    /\ UNCHANGED <<pair, nquad, nchol, Marginals, Rho_X, A, ops, side, seen>>

\* lines 255-262: the factor A of Rho_Z, on either kind of build
Factorize ==
    /\ pc = "cholesky"
    /\ \E lax \in BOOLEAN :
         IF CholeskyBy(Rho_Z, lax).ok
         THEN /\ A' = CholeskyBy(Rho_Z, lax).L
              /\ nchol' = nchol + 1
              /\ pc' = "ready"
              /\ err' = err
         ELSE /\ Raise("TransformedNotPositiveDefinite")
              /\ UNCHANGED <<A, nchol>>
    /\ UNCHANGED <<row, i, j, k, pair, calls, stored, nquad, Marginals, Rho_X, Rho_Z, ops, drawn, side, seen>>

\* ------------------------------------------------------------------------
\* The operations of a constructed engine
\* ------------------------------------------------------------------------
\* what a call gives back: the returned array, the Jacobian (<< >> if none
\* was asked for) and the exception that ended the call ("" if none)
Returned(a, jacobian) == [ret |-> a, J |-> jacobian, err |-> "", msg |-> ""]
Raised(e) == [ret |-> NoArr, J |-> << >>, err |-> e, msg |-> ""]

\* the two messages of the shape error, lines 300 and 306-307
TooManyDimensions == "X must have not more than two dimensions."
NotOfSizeND == "X must be an array of size [n,d]"
RaisedShape(text) == [ret |-> NoArr, J |-> << >>, err |-> "ShapeError", msg |-> text]

\* lines 287-293 and 391-397
HasDiscrete(Ms) == \E q \in 1..Len(Ms) : Ms[q].Name \in DiscreteNames

\* lines 301-309 (and 340-348, 405-413, 459-467), for an array of two
\* dimensions: a single column is taken as one point when d is not 1
OrientedAlways(X0, d) ==
    IF X0.shape[2] = 1 THEN Transposed(X0) ELSE X0
Oriented(X0, d) ==
    IF X0.shape[2] = 1 /\ d # 1 THEN Transposed(X0) ELSE X0

Accepted(X1, d) ==
    IF X1.shape[2] # d
    THEN [ok |-> FALSE, X |-> NoArr, msg |-> NotOfSizeND]
    ELSE [ok |-> TRUE, X |-> X1, msg |-> ""]

\* lines 284 and 299-309: the input as an array of shape [n, d]
ShapeChecked(x, d) ==
    IF Ndim(x) > 2 THEN [ok |-> FALSE, X |-> NoArr, msg |-> TooManyDimensions]
    ELSE Accepted(Oriented(AtLeast2d(x), d), d)

\* lines 311-313: Z[i, p] = norm.ppf(Marginals[i].cdf(X[p, i])), row i of Z
\* at index i + 1
Standardized(Ms, X) ==
    [r \in 1..Len(Ms) |-> [q \in 1..X.shape[1] |->
        NormPpf(MargCdf(Ms[r], Get(X, q - 1, r - 1)))]]

\* column c of solve(A, diag) for diag[c, c] = g
SolvedUnit(L, d, c, g) == SolveVec(L, [r \in 1..d |-> IF r = c THEN g ELSE 0])

\* lines 316-320: solve(A, diag), diag[c, c] = pdf_c(X[0, c]) / norm.pdf(Z[c, 0])
JacobianXU(Ms, L, X, Z) ==
    [r \in 1..Len(Ms) |-> [c \in 1..Len(Ms) |->
        SolvedUnit(L, Len(Ms), c,
                   Div(MargPdf(Ms[c], Get(X, 0, c - 1)), NormPdf(Z[c][1])))[r]]]

\* line 314: np.linalg.solve(A, Zs).T, Zs being Z squeezed
SolvedT(L, Z, Zs, n, d) ==
    IF Ndim(Zs) = 1
    THEN [shape |-> <<d>>, data |-> SolveVec(L, [r \in 1..d |-> Z[r][1]])]
    ELSE FromRows(n, d, [q \in 1..n |-> SolveVec(L, [r \in 1..d |-> Z[r][q]])])

\* lines 314-323
X2USolved(Ms, L, X, Z, Zs, jacobian) ==
    IF ~SolveTakes(L, Zs) THEN Raised("ValueError")
    ELSE Returned(Squeeze(SolvedT(L, Z, Zs, X.shape[1], Len(Ms))),
                  IF jacobian THEN JacobianXU(Ms, L, X, Z) ELSE << >>)

\* lines 311-323
X2UStandardized(Ms, L, X, Z, jacobian) ==
    X2USolved(Ms, L, X, Z, Squeeze(FromRows(Len(Ms), X.shape[1], Z)), jacobian)

\* lines 299-323
X2UChecked(Ms, L, chk, jacobian) ==
    IF ~chk.ok THEN RaisedShape(chk.msg)
    ELSE X2UStandardized(Ms, L, chk.X, Standardized(Ms, chk.X), jacobian)

\* lines 283-323
X2UResult(Ms, L, x, jacobian) ==
    IF HasDiscrete(Ms) THEN Raised("UnsupportedOperation")
    ELSE X2UChecked(Ms, L, ShapeChecked(x, Len(Ms)), jacobian)

\* lines 353-355: X[p, i] = Marginals[i].icdf(norm.cdf(Z[i, p])), Z and X
\* kept point by point
Physical(Ms, Z) ==
    [q \in 1..Len(Z) |-> [r \in 1..Len(Ms) |-> MargIcdf(Ms[r], NormCdf(Z[q][r]))]]

\* lines 357-361: diag @ A, diag[r, r] = norm.pdf(Z[r, 0]) / pdf_r(X[0, r])
JacobianUX(Ms, L, Z, Xs) ==
    [r \in 1..Len(Ms) |-> [c \in 1..Len(Ms) |->
        Mul(Div(NormPdf(Z[1][r]), MargPdf(Ms[r], Xs[1][r])), L[r][c])]]

\* lines 353-364
U2XMapped(Ms, L, Z, Xs, jacobian) ==
    Returned(Squeeze(FromRows(Len(Z), Len(Ms), Xs)),
             IF jacobian THEN JacobianUX(Ms, L, Z, Xs) ELSE << >>)

\* lines 351-364
U2XCorrelated(Ms, L, Z, jacobian) == U2XMapped(Ms, L, Z, Physical(Ms, Z), jacobian)

\* Z = U.T, point by point
Uncorrelated(L, U, d) ==
    [q \in 1..U.shape[1] |-> [r \in 1..d |-> Get(U, q - 1, r - 1)]]

\* line 351: Z = A @ U.T, point by point
Correlated(L, U, d) ==
    [q \in 1..U.shape[1] |-> MatVec(L, [r \in 1..d |-> Get(U, q - 1, r - 1)])]

\* lines 338-364
U2XChecked(Ms, L, chk, jacobian) ==
    IF ~chk.ok THEN RaisedShape(chk.msg)
    ELSE U2XCorrelated(Ms, L, Correlated(L, chk.X, Len(Ms)), jacobian)

\* lines 335-364
U2XResult(Ms, L, u, jacobian) == U2XChecked(Ms, L, ShapeChecked(u, Len(Ms)), jacobian)

\* lines 375-377
Sampled(Ms, Z) ==
    [q \in 1..Len(Z) |-> [r \in 1..Len(Ms) |-> MargIcdf(Ms[r], NormCdf(Z[q][r]))]]

\* lines 371-379, for the standard normal draws U[r, q] = draws[q][r]
RandomResult(Ms, L, draws) ==
    Returned(Squeeze(FromRows(Len(draws), Len(Ms),
                              Sampled(Ms, [q \in 1..Len(draws) |-> MatVec(L, draws[q])]))),
             << >>)

RECURSIVE Product(_)
Product(xs) == IF xs = << >> THEN One ELSE Mul(Head(xs), Product(Tail(xs)))

RECURSIVE Total(_)
Total(xs) == IF xs = << >> THEN 0 ELSE Add(Head(xs), Total(Tail(xs)))

\* exp(-|y|^2 / 2 - sum ln L[r, r] - d ln sqrt(2 pi))
MvnDensity(L, y) ==
    Exp(Sub(Sub(Sub(0, Div(Total([r \in 1..Len(y) |-> Squared(y[r])]), 2 * One)),
                Total([r \in 1..Len(y) |-> Ln(L[r][r])])),
            Len(y) * 918939))

MvnFactored(L, u) == MvnDensity(L, SolveVec(L, u))

\* stats.multivariate_normal.pdf(u, 0, Z): with Z = L L' and y = L^-1 u
MvnPdf(Zm, u) == MvnFactored(Cholesky(Zm).L, u)

\* lines 415-419 and 457-471: U[p, i] = norm.ppf(Marginals[i].cdf(X[p, i]))
StandardNormalPoints(Ms, X) ==
    [q \in 1..X.shape[1] |-> [r \in 1..Len(Ms) |->
        NormPpf(MargCdf(Ms[r], Get(X, q - 1, r - 1)))]]

\* a result of n values: a scalar for one point, else an array of shape [n]
PerPoint(vals) ==
    Returned(IF Len(vals) = 1 THEN [shape |-> << >>, data |-> vals]
             ELSE [shape |-> <<Len(vals)>>, data |-> vals], << >>)

\* f / (phi + realmin), realmin being the smallest positive float
OverPositive(f, phi) ==
    IF phi # 0 THEN Div(f, phi)
    ELSE IF f = 0 THEN 0 ELSE IF IsNum(f) THEN PosInf ELSE NaN

\* lines 415-442
PdfStandardized(Ms, Zm, X, U) ==
    PerPoint([q \in 1..Len(U) |->
        Mul(OverPositive(
                Product([r \in 1..Len(Ms) |-> MargPdf(Ms[r], Get(X, q - 1, r - 1))]),
                Product([r \in 1..Len(Ms) |-> NormPdf(U[q][r])])),
            MvnPdf(Zm, U[q]))])

\* lines 403-442
PdfChecked(Ms, Zm, chk) ==
    IF ~chk.ok THEN RaisedShape(chk.msg)
    ELSE PdfStandardized(Ms, Zm, chk.X, StandardNormalPoints(Ms, chk.X))

\* lines 387-442
PdfResult(Ms, Zm, x) ==
    IF HasDiscrete(Ms) THEN Raised("UnsupportedOperation")
    ELSE PdfChecked(Ms, Zm, ShapeChecked(x, Len(Ms)))

\* the estimates stats.multivariate_normal.cdf may give for one point in
\* more than one dimension (it integrates by sampling)
CdfEstimates == {One \div 4, One \div 2}

\* lines 469-477
CdfStandardized(Ms, U, est) ==
    PerPoint([q \in 1..Len(U) |-> IF Len(Ms) = 1 THEN NormCdf(U[q][1]) ELSE est])

\* lines 457-477
CdfChecked(Ms, chk, est) ==
    IF ~chk.ok THEN RaisedShape(chk.msg)
    ELSE CdfStandardized(Ms, StandardNormalPoints(Ms, chk.X), est)

\* lines 454-477, est being the library's estimate in more than one dimension
CdfResult(Ms, x, est) == CdfChecked(Ms, ShapeChecked(x, Len(Ms)), est)

\* the most points in one array
MaxPts == 2

RECURSIVE SizeOf(_)
SizeOf(shape) == IF shape = << >> THEN 1 ELSE Head(shape) * SizeOf(Tail(shape))

\* an array of the given shape holding a, b, a, b, ...
ArrOf(shape, a, b) ==
    [shape |-> shape, data |-> [q \in 1..SizeOf(shape) |-> IF q % 2 = 1 THEN a ELSE b]]

\* the shapes callers pass: a scalar, a vector, [n, d'], a column, 3-d
ArgShapes ==
    {<< >>, <<1, 1, 2>>}
      \cup {<<c>> : c \in 1..MaxDim}
      \cup {<<r, c>> : r \in 1..MaxPts, c \in 1..MaxDim}
      \cup {<<c, 1>> : c \in 1..MaxDim}

\* 0.3 and 0.7 lie in the support of every continuous marginal used; -0.5
\* lies outside the support of the lognormal, uniform and pareto ones
ArgFills ==
    {<<3 * (One \div 10), 7 * (One \div 10)>>, <<7 * (One \div 10), 3 * (One \div 10)>>,
     <<0 - Half, 3 * (One \div 10)>>}

ArgFillOne == <<3 * (One \div 10), 7 * (One \div 10)>>

Args == {ArrOf(s, f[1], f[2]) : s \in ArgShapes, f \in ArgFills}

\* the caller makes the array of its next call
Prepare ==
    /\ pc = "ready"
    /\ arg' \in Args
    /\ orig' = NoArr
    /\ last' = NoCall
    /\ UNCHANGED <<drawn, side, ctor, engine>>

\* the caller takes what X2U returned for arg as the array of its next call
Feed ==
    /\ pc = "ready"
    /\ last.op = "X2U" /\ last.err = "" /\ orig = NoArr
    /\ arg' = last.ret
    /\ orig' = arg
    /\ last' = NoCall
    /\ UNCHANGED <<drawn, side, ctor, engine>>

\* the array as np.array(X, ndmin=2) with the default copy=False of
\* np.asarray would leave it to the caller, were the dimension added in place
KeptReshaped(x) == AtLeast2d(x)
\* lines 284, 336, 388, 455: np.array(X, ndmin=2) copies X, and X.T rebinds
\* the local name: the caller's array is as it was
Kept(x) == x

\* what a call leaves in last
Outcome(name, jacobian, r) ==
    [op |-> name, jac |-> jacobian, ret |-> r.ret, J |-> r.J, err |-> r.err,
     msg |-> r.msg]

\* lines 274-323: np.array(X, ndmin=2) copies; X.T rebinds the local name
X2U ==
    /\ pc = "ready" /\ arg # NoArr /\ last = NoCall
    /\ \E jacobian \in BOOLEAN :
         last' = Outcome("X2U", jacobian, X2UResult(Marginals, A, arg, jacobian))
    /\ arg' = Kept(arg)
    /\ UNCHANGED <<drawn, side, ctor, engine, orig>>

\* lines 326-364
U2X ==
    /\ pc = "ready" /\ arg # NoArr /\ last = NoCall
    /\ \E jacobian \in BOOLEAN :
         last' = Outcome("U2X", jacobian, U2XResult(Marginals, A, arg, jacobian))
    /\ arg' = Kept(arg)
    /\ UNCHANGED <<drawn, side, ctor, engine, orig>>

\* line 373: the n vectors of d values that np.random.randn gives
Draws(n, d, f) ==
    [q \in 1..n |-> [r \in 1..d |-> IF (q + r) % 2 = 0 THEN f[1] ELSE f[2]]]

\* what a call of random leaves in last: the outcome, and the vectors drawn
Drawn(r, draws) ==
    [op |-> "random", jac |-> FALSE, ret |-> r.ret, J |-> r.J, err |-> r.err,
     msg |-> r.msg, U |-> draws]

\* lines 367-379: n samples from draws of np.random.randn
random ==
    /\ pc = "ready" /\ last = NoCall
    /\ \E n \in 1..MaxPts, f \in ArgFills :
         last' = Drawn(RandomResult(Marginals, A, Draws(n, n_dist, f)),
                       Draws(n, n_dist, f))
    /\ UNCHANGED <<drawn, side, ctor, engine, arg, orig>>

\* lines 382-442
pdf ==
    /\ pc = "ready" /\ arg # NoArr /\ last = NoCall
    /\ last' = Outcome("pdf", FALSE, PdfResult(Marginals, Rho_Z, arg))
    /\ arg' = Kept(arg)
    /\ UNCHANGED <<drawn, side, ctor, engine, orig>>

\* lines 445-477
cdf ==
    /\ pc = "ready" /\ arg # NoArr /\ last = NoCall
    /\ \E est \in CdfEstimates :
         last' = Outcome("cdf", FALSE, CdfResult(Marginals, arg, est))
    /\ arg' = Kept(arg)
    /\ UNCHANGED <<drawn, side, ctor, engine, orig>>

Construct ==
    \/ CheckMoments
    \/ CheckCorrelation
    \/ BeginFill
    \/ FillPair
    \/ Brentq
    \/ FsolveSeeded
    \/ FsolveNegated
    \/ Restart
    \/ Factorize

Next == Construct

Spec == Init /\ [][Next]_vars

\* engines for the operations
Sym3(a, b, c) == <<<<One, a, b>>, <<a, One, c>>, <<b, c, One>>>>
OpsInputs ==
    {[M |-> <<m>>, C |-> <<<<One>>>>] :
        m \in {StdNormalDist, NormalDist, LogNormalDist, UniformDist, PoissonDist,
                ParetoDist}}
      \cup {[M |-> <<StdNormalDist, NormalDist>>, C |-> Sym2(0)],
             [M |-> <<NormalDist, NormalDist>>, C |-> Sym2(Half)],
             [M |-> <<NormalDist, LogNormalDist>>, C |-> Sym2(Half)],
             [M |-> <<UniformDist, NormalDist>>, C |-> Sym2(Half)],
             [M |-> <<NormalDist, PoissonDist>>, C |-> Sym2(0)],
             [M |-> <<NormalDist, UniformDist, LogNormalDist>>, C |-> Sym3(0, Half, 0)],
             [M |-> <<NormalDist, NormalDist, NormalDist>>, C |-> Sym3(Half, Half, Half)]}

InitOps == Called(OpsInputs)
Operate == Prepare \/ Feed \/ X2U \/ U2X \/ random \/ pdf \/ cdf
NextOps == Construct \/ Operate
SpecOps == InitOps /\ [][NextOps]_vars


\* ------------------------------------------------------------------------
\* The random variables of UCSD_UQ/pdfs.py
\* ------------------------------------------------------------------------
\* np.pi
Pi == 3141593

\* what a method call gives back: a value or an exception
Gives(v) == [ret |-> v, err |-> ""]
Throws(e) == [ret |-> << >>, err |-> e]

\* 1 / b for a number b: Python's float raises at zero, numpy's gives inf
Reciprocal(b, numpy) ==
    IF b = 0 THEN (IF numpy THEN Gives(PosInf) ELSE Throws("ZeroDivisionError"))
    ELSE Gives(Div(One, b))

\* np.log, +inf included
Log(x) == IF x = PosInf THEN PosInf ELSE Ln(x)

\* lines 35-40: Uniform.log_pdf_eval
UniformLogPdf(o, x) ==
    IF Mul(Sub(x, o.upper), Sub(x, o.lower)) <= 0
    THEN LET r == Reciprocal(o.upper - o.lower, o.numpy)
         IN  IF r.err # "" THEN r ELSE Gives(Log(r.ret))
    ELSE Gives(NegInf)

\* lines 50-59: Halfnormal.log_pdf_eval
HalfnormalLogPdf(o, x) ==
    IF x >= 0
    THEN Gives(Sub(Add(Sub(0, Ln(o.sig)), Div(Ln(Div(2 * One, Pi)), 2 * One)),
                   Div(Mul(x, x), Mul(2 * One, Mul(o.sig, o.sig)))))
    ELSE Gives(NegInf)

\* the end points, scales and arguments the objects are tried with
Ends == {0, One, 2 * One}
Scales == {Half, (3 * One) \div 4, One}
Points == {0 - One, 0 - Half, 0, Half, One, 3 * Half, 2 * One}

\* no engine is involved
InitPdfs ==
    /\ pc = "none" /\ err = ""
    /\ Marginals = << >> /\ Rho_X = << >> /\ Rho_Z = << >> /\ A = << >>
    /\ row = 0 - 1 /\ i = 0 - 1 /\ j = 0 - 1 /\ k = 0
    /\ pair = << >> /\ calls = << >> /\ stored = NoStore
    /\ seen = {} /\ nquad = 0 /\ nchol = 0
    /\ arg = NoArr /\ orig = NoArr /\ last = NoCall
    /\ drawn = 0 /\ flight = NoFlight
    /\ rv = NoRv /\ got = NoOut

Fresh == rv = NoRv /\ got = NoOut
Made(o) ==
    /\ rv' = o
    /\ got' = [op |-> "__init__", x |-> 0, ret |-> << >>, err |-> ""]
    /\ UNCHANGED <<ctor, engine, ops, drawn, flight>>
Refused(e) ==
    /\ rv' = NoRv
    /\ got' = [op |-> "__init__", x |-> 0, ret |-> << >>, err |-> e]
    /\ UNCHANGED <<ctor, engine, ops, drawn, flight>>
Answered(op, x, r) ==
    /\ got' = [op |-> op, x |-> x, ret |-> r.ret, err |-> r.err]
    /\ UNCHANGED <<ctor, engine, ops, drawn, flight, rv>>

\* lines 21-28: Uniform(lower, upper), the numbers being Python's or numpy's
Uniform ==
    /\ Fresh
    /\ \E lower \in Ends, upper \in Ends, numpy \in BOOLEAN :
          Made([class |-> "Uniform", lower |-> lower, upper |-> upper,
                numpy |-> numpy])

\* lines 44-45: Halfnormal(sig)
Halfnormal ==
    /\ Fresh
    /\ \E sig \in Scales : Made([class |-> "Halfnormal", sig |-> sig])

\* lines 80-84: TrunNormal(mu, sig, a, b) keeps its arguments
TrunNormal ==
    /\ Fresh
    /\ \E a \in Ends, b \in Ends :
          Made([class |-> "TrunNormal", mu |-> One, sig |-> One, a |-> a, b |-> b])

\* stats.truncnorm(a, b, loc, scale).logpdf(x): nan unless a < b
TruncnormLogpdf(a, b, loc, scale, x) ==
    LET z == Div(Sub(x, loc), scale)
    IN  IF ~(a < b) THEN NaN
        ELSE IF z < a \/ z > b THEN NegInf
        ELSE Sub(Sub(Ln(NormPdf(z)), Ln(Sub(NormCdf(b), NormCdf(a)))), Ln(scale))

\* lines 94-101: TrunNormal.log_pdf_eval
TrunNormalLogPdf(o, x) ==
    Gives(TruncnormLogpdf(Div(Sub(o.a, o.mu), o.sig), Div(Sub(o.b, o.mu), o.sig),
                          o.mu, o.sig, x))

\* the rates a truncated exponential is made with
Rates == {0, One, 2 * One}

\* lines 210-217: TruncatedExponentialDist(lamda, lower, upper), of Python
\* floats; stats.truncexpon(b, loc, scale) freezes whatever it is given
TruncatedExponentialDist ==
    /\ Fresh
    /\ \E lamda \in Rates, lower \in Ends, upper \in Ends :
          LET scale == Reciprocal(lamda, FALSE)
          IN  IF scale.err # "" THEN Refused(scale.err)
              ELSE Made([class |-> "TruncatedExponentialDist", lower |-> lower,
                         upper |-> upper, lamda |-> lamda, scale |-> scale.ret,
                         loc |-> lower,
                         b |-> Div(Sub(upper, lower), scale.ret)])

\* stats.truncexpon(b, loc, scale).logpdf(x): nan unless b > 0
TruncexponLogpdf(b, loc, scale, x) ==
    LET y == Div(Sub(x, loc), scale)
    IN  IF ~(b > 0) THEN NaN
        ELSE IF y < 0 \/ y > b THEN NegInf
        ELSE Sub(Sub(Sub(0, y), Ln(Sub(One, Exp(Sub(0, b))))), Ln(scale))

\* lines 222-223: TruncatedExponentialDist.log_pdf_eval
TruncatedExponentialLogPdf(o, x) ==
    Gives(TruncexponLogpdf(o.b, o.loc, o.scale, x))

\* the supports, weights and standard-normal arguments of a DiscreteDist
Supports == {<<7 * One>>, <<3 * One, One>>, <<One, 2 * One, 5 * One>>}
Weights ==
    {<<2 * One>>, <<One, One>>, <<Half, 3 * Half>>, <<One, 0>>,
     <<Half, Half, One>>, <<0, One, One>>, <<One, 0, One>>, <<One, Half, 0>>}
Normals == {0 - 2 * One, 0, Half, 6 * One}
NormalArrays == UNION {[1..n -> Normals] : n \in 1..MaxPts}

RECURSIVE SumTo(_, _)
\* np.sum / np.cumsum: w[1] + ... + w[n]
SumTo(w, n) == IF n = 0 THEN 0 ELSE Add(SumTo(w, n - 1), w[n])

\* line 259: np.log(w) - np.log(total), -inf for a weight of 0
LogProbability(w, total) == IF w = 0 THEN NegInf ELSE Sub(Ln(w), Ln(total))

\* lines 255-260: DiscreteDist(values, weights), both given as arrays
DiscreteDist ==
    /\ Fresh
    /\ \E values \in Supports, weights \in Weights :
          /\ Len(values) = Len(weights)
          /\ LET total == SumTo(weights, Len(weights))
             IN  Made([class |-> "DiscreteDist", values |-> values,
                       weights |-> weights,
                       probabilities |->
                           [q \in 1..Len(weights) |-> Div(weights[q], total)],
                       log_probabilities |->
                           [q \in 1..Len(weights) |->
                               LogProbability(weights[q], total)]])

\* lines 266-268: the cumulative sums, a 0 put in front, the last one dropped
CumsumProb(p) == [q \in 1..Len(p) |-> SumTo(p, q - 1)]

\* np.where(cumsum_prob <= cdf_val)[0]: the (1-based) places that hold
WhereBelow(c, cdf_val) == {q \in 1..Len(c) : cdf_val # NaN /\ c[q] <= cdf_val}

\* the first place of a set of places
FirstOf(places) == CHOOSE q \in places : \A r \in places : q <= r

\* [-1]: the last place of a set of places
LastOf(places) == CHOOSE q \in places : \A r \in places : r <= q

\* line 272: the place in values that a component is mapped to, 0 if none
Place(o, u_comp) ==
    LET places == WhereBelow(CumsumProb(o.probabilities), NormCdf(u_comp))
    IN  IF places = {} THEN 0 ELSE LastOf(places)

\* lines 265-273: DiscreteDist.U2X, u being an array of floats
DiscreteU2X(o, u) ==
    IF \E q \in 1..Len(u) : Place(o, u[q]) = 0 THEN Throws("IndexError")
    ELSE Gives([q \in 1..Len(u) |-> o.values[Place(o, u[q])]])

\* np.where(self.values == x_comp): the places of a value
WhereEqual(values, x_comp) == {q \in 1..Len(values) : values[q] = x_comp}

\* lines 275-280: DiscreteDist.log_pdf_eval
DiscreteLogPdf(o, u) ==
    LET x == DiscreteU2X(o, u)
    IN  IF x.err # "" THEN x
        ELSE IF \E q \in 1..Len(u) :
                   Cardinality(WhereEqual(o.values, x.ret[q])) # 1
             THEN Throws("ValueError")
        ELSE Gives([q \in 1..Len(u) |->
                 o.log_probabilities[LastOf(WhereEqual(o.values, x.ret[q]))]])

DiscreteDistU2X ==
    /\ rv.class = "DiscreteDist"
    /\ \E u \in NormalArrays : Answered("U2X", u, DiscreteU2X(rv, u))

\* the values and the numbers of draws of a ConstantInteger
MaxN == 3
Integers3 == {0 - 2 * One, 0, 3 * One}

\* lines 284-285: ConstantInteger(value)
ConstantInteger ==
    /\ Fresh
    /\ \E value \in Integers3 : Made([class |-> "ConstantInteger", value |-> value])

\* dtype=int: the fraction of a number is cut off
AsInt(v) == IF v >= 0 THEN (v \div One) * One ELSE 0 - (((0 - v) \div One) * One)

\* np.array(list, dtype=int)
IntArray(list) == [q \in 1..Len(list) |-> AsInt(list[q])]

\* [v for _ in range(N)] with one entry more
RepeatedOnceMore(v, N) == [q \in 1..(N + 1) |-> v]

\* [v for _ in range(N)]
Repeated(v, N) == [q \in 1..N |-> v]

\* lines 287-288: ConstantInteger.generate_rns
ConstantDraws(o, N) == Gives(IntArray(Repeated(o.value, N)))

generate_rns ==
    /\ rv.class = "ConstantInteger"
    /\ \E N \in 0..MaxN : Answered("generate_rns", N, ConstantDraws(rv, N))

\* log_pdf_eval(x) of the object's class
LogPdf(o, x) ==
    CASE o.class = "Uniform" -> UniformLogPdf(o, x)
      [] o.class = "Halfnormal" -> HalfnormalLogPdf(o, x)
      [] o.class = "TrunNormal" -> TrunNormalLogPdf(o, x)
      [] o.class = "TruncatedExponentialDist" -> TruncatedExponentialLogPdf(o, x)
      [] o.class = "DiscreteDist" -> DiscreteLogPdf(o, x)
      [] o.class = "ConstantInteger" -> Gives(0)

log_pdf_eval ==
    /\ rv.class # ""
    /\ \E x \in (IF rv.class = "DiscreteDist" THEN NormalArrays ELSE Points) :
          Answered("log_pdf_eval", x, LogPdf(rv, x))

NextPdfs ==
    \/ Uniform
    \/ Halfnormal
    \/ TrunNormal
    \/ TruncatedExponentialDist
    \/ DiscreteDist
    \/ ConstantInteger
    \/ log_pdf_eval
    \/ DiscreteDistU2X
    \/ generate_rns
SpecPdfs == InitPdfs /\ [][NextPdfs]_vars


\* ------------------------------------------------------------------------
\* Several callers on one engine: a call is entered, reads self.Marginals,
\* reads self.A and self.Rho_Z, and returns what it computed from what it read
\* ------------------------------------------------------------------------
\* the methods of a ready engine
Methods == {"X2U", "U2X", "pdf", "cdf", "random"}

\* the arrays the callers pass: MaxPts points, and an array of three dimensions
ParArgs(d) ==
    {ArrOf(<<MaxPts, d>>, ArgFillOne[1], ArgFillOne[2]),
     ArrOf(<<1, 1, 2>>, ArgFillOne[1], ArgFillOne[2])}

\* lines 274-477 hold no assignment to an attribute of self
HeldReversed(v) == [q \in 1..Len(v) |-> v[Len(v) + 1 - q]]
Held(v) == v

\* the attributes of the engine after a step of a method
Reads ==
    /\ Marginals' = Held(Marginals)
    /\ Rho_X' = Held(Rho_X)
    /\ Rho_Z' = Held(Rho_Z)
    /\ A' = Held(A)

\* a caller enters a method of the engine
Enter(c) ==
    /\ pc = "ready" /\ flight[c].at = "idle"
    /\ \E op \in Methods, x \in ParArgs(n_dist), jacobian \in BOOLEAN :
          /\ jacobian => op \in {"X2U", "U2X"}
          /\ (op = "random") => x = ArrOf(<<1, 1, 2>>, ArgFillOne[1], ArgFillOne[2])
          /\ flight' = [flight EXCEPT ![c] =
                [NotCalling EXCEPT !.at = "entered", !.op = op, !.jac = jacobian,
                                   !.x = IF op = "random" THEN NoArr ELSE x]]
    /\ Reads
    /\ UNCHANGED <<ctor, ops, drawn, rv, got>>

\* lines 283, 335, 372, 387, 454: n_dim and the marginals are read
ReadMarginals(c) ==
    /\ pc = "ready" /\ flight[c].at = "entered"
    /\ flight' = [flight EXCEPT ![c].at = "checked", ![c].M = Marginals]
    /\ Reads
    /\ UNCHANGED <<ctor, ops, drawn, rv, got>>

\* lines 314, 351, 374, 424, 473: self.A or self.Rho_Z is read
ReadFactor(c) ==
    /\ pc = "ready" /\ flight[c].at = "checked"
    /\ flight' = [flight EXCEPT ![c].at = "factored", ![c].L = A, ![c].Z = Rho_Z]
    /\ Reads
    /\ UNCHANGED <<ctor, ops, drawn, rv, got>>

\* what the call of f returns, from what it read
Computed(f, est, n) ==
    CASE f.op = "X2U" -> Outcome("X2U", f.jac, X2UResult(f.M, f.L, f.x, f.jac))
      [] f.op = "U2X" -> Outcome("U2X", f.jac, U2XResult(f.M, f.L, f.x, f.jac))
      [] f.op = "pdf" -> Outcome("pdf", FALSE, PdfResult(f.M, f.Z, f.x))
      [] f.op = "cdf" -> Outcome("cdf", FALSE, CdfResult(f.M, f.x, est))
      [] f.op = "random" ->
            Drawn(RandomResult(f.M, f.L, Draws(n, Len(f.M), ArgFillOne)),
                  Draws(n, Len(f.M), ArgFillOne))

\* the method returns
Return(c) ==
    /\ pc = "ready" /\ flight[c].at = "factored"
    /\ \E est \in CdfEstimates, n \in 1..MaxPts :
          /\ (flight[c].op # "cdf") => est = One \div 2
          /\ (flight[c].op # "random") => n = 1
          /\ flight' = [flight EXCEPT ![c].at = "returned",
                                      ![c].out = Computed(flight[c], est, n)]
    /\ Reads
    /\ UNCHANGED <<ctor, ops, drawn, rv, got>>

\* the caller has taken the result
Leave(c) ==
    /\ pc = "ready" /\ flight[c].at = "returned"
    /\ flight' = [flight EXCEPT ![c] = NotCalling]
    /\ UNCHANGED <<ctor, engine, ops, drawn, rv, got>>

ParInputs == {[M |-> <<UniformDist, NormalDist>>, C |-> Sym2(Half)]}
InitPar == Called(ParInputs)
Concurrent ==
    \E c \in Callers :
        Enter(c) \/ ReadMarginals(c) \/ ReadFactor(c) \/ Return(c) \/ Leave(c)
NextPar == Construct \/ Concurrent
SpecPar == InitPar /\ [][NextPar]_vars


\* ------------------------------------------------------------------------
\* Several constructions in one process, one after the other
\* ------------------------------------------------------------------------
\* the most quadrature tables computed in one process
MaxTables == 2

ProcInputs ==
    {[M |-> <<NormalDist>>, C |-> <<<<One>>>>],
     [M |-> <<PoissonDist, ParetoDist>>, C |-> Sym2(0)],
     [M |-> <<UniformDist, NormalDist>>, C |-> Sym2(Half)]}

\* lines 83-90: ERANataf(M, Correlation) is called again; the new object has
\* its own attributes, the process keeps what it has computed and drawn
Again ==
    /\ pc \in {"ready", "failed"} /\ nquad < MaxTables
    /\ \E inp \in ProcInputs : Marginals' = inp.M /\ Rho_X' = inp.C
    /\ pc' = "moments" /\ err' = ""
    /\ Rho_Z' = << >> /\ A' = << >>
    /\ row' = 0 - 1 /\ i' = 0 - 1 /\ j' = 0 - 1 /\ k' = 0
    /\ pair' = << >> /\ calls' = << >> /\ stored' = NoStore
    /\ seen' = {} /\ nchol' = 0
    /\ UNCHANGED <<nquad, ops, drawn, side>>

InitProc == Called(ProcInputs)
NextProc == Construct \/ Again
SpecProc == InitProc /\ [][NextProc]_vars


\* ------------------------------------------------------------------------
\* Constructions and calls that miss several requirements at once
\* ------------------------------------------------------------------------
CheckInputs ==
    {[M |-> <<m>>, C |-> <<<<One>>>>] : m \in {NormalDist, PoissonDist}}
      \cup {[M |-> <<UniformDist, NormalDist>>, C |-> Sym2(Half)],
             [M |-> <<NormalDist, PoissonDist>>, C |-> Sym2(0)]}
      \cup {[M |-> <<m, NormalDist>>, C |-> c] :
               m \in {NormalDist, ParetoDist},
               c \in {c \in Corr2 : CorrelationError(c) # ""}}

InitChecks == Called(CheckInputs)
SpecChecks == InitChecks /\ [][NextOps]_vars


\* ------------------------------------------------------------------------
\* Properties
\* ------------------------------------------------------------------------
\* every marginal has a finite mean and a finite standard deviation
FiniteMoments(ms) ==
    \A q \in 1..Len(ms) : IsNum(ms[q].mean) /\ IsNum(ms[q].std)

\* a square matrix that misses a requirement of a correlation matrix
Defective(M) ==
    IsSquare(M) /\ (~HasUnitDiag(M) \/ ~IsSymmetric(M) \/ ~Cholesky(M).ok)

\* the errors that name a requirement M misses; positive definiteness is a
\* property of symmetric matrices
Missed(M) ==
    {e \in {"NotUnitDiagonal", "NotSymmetric", "NotPositiveDefinite"} :
        \/ e = "NotUnitDiagonal" /\ ~HasUnitDiag(M)
        \/ e = "NotSymmetric" /\ ~IsSymmetric(M)
        \/ e = "NotPositiveDefinite" /\ (~IsSymmetric(M) \/ ~Cholesky(M).ok)}

\* the first requirement M misses in the order positive definiteness (of
\* the lower triangle), symmetry, unit diagonal
FirstMissed(M) ==
    IF ~Cholesky(M).ok THEN "NotPositiveDefinite"
    ELSE IF ~IsSymmetric(M) THEN "NotSymmetric"
    ELSE "NotUnitDiagonal"

BeforeFill == {"moments", "correlation", "failed"}

\* C1, as stated: a construction with a defective correlation matrix never
\* gets past the checks, and the error it ends with names a requirement the
\* matrix misses
C1_AsStated ==
    Defective(Rho_X) => pc \in BeforeFill /\ (pc = "failed" => err \in Missed(Rho_X))

\* C1, amended: when every marginal has finite moments, a construction with
\* a defective correlation matrix never gets past the checks and ends with
\* the error of the first requirement the matrix misses, in the order
\* positive definiteness, symmetry, unit diagonal
C1_DefectiveRejected ==
    (FiniteMoments(Marginals) /\ Defective(Rho_X))
        => pc \in BeforeFill /\ (pc = "failed" => err = FirstMissed(Rho_X))

\* a symmetric positive definite matrix with a diagonal entry other than 1
\* was rejected for its diagonal
C1_Witness ==
    pc = "failed" /\ err = "NotUnitDiagonal" /\ FiniteMoments(Marginals) /\ Defective(Rho_X)

Terminal == {"ready", "failed"}
Stages == {"moments", "correlation", "quadrature", "pair", "brentq", "fsolve",
           "fsolve-negated", "restart", "cholesky"}

\* a ready engine has marginals with finite moments, no error and its factor,
\* computed once; a failed construction has an error and no factor; marginals
\* without finite moments end in the invalid-moments error; and an operation
\* has only ever been invoked on a ready engine
Lifecycle ==
    /\ pc \in Stages \cup Terminal
    /\ pc = "ready" => err = "" /\ FiniteMoments(Marginals) /\ A # << >> /\ nchol = 1
    /\ pc = "failed" => err # "" /\ A = << >> /\ nchol = 0
    /\ pc \in Stages => err = "" /\ A = << >> /\ nchol = 0
    /\ (pc \in Terminal /\ ~FiniteMoments(Marginals))
           => pc = "failed" /\ err = "InvalidMoments"
    /\ (arg # NoArr \/ orig # NoArr \/ last # NoCall) => pc = "ready"

\* how far a construction has come: the checks, then the pairs in loop
\* order with the root-finder calls of each, then the factorization
PairSpan == Restarts + 4
Ended == 4 + n_dist * n_dist * PairSpan
Progress ==
    CASE pc = "moments" -> 0
      [] pc = "correlation" -> 1
      [] pc = "quadrature" -> 2
      [] pc = "pair" -> 3 + (row * n_dist + j) * PairSpan
      [] pc = "brentq" -> 3 + (row * n_dist + j) * PairSpan + 1
      [] pc = "fsolve" -> 3 + (row * n_dist + j) * PairSpan + 2
      [] pc = "fsolve-negated" -> 3 + (row * n_dist + j) * PairSpan + 3
      [] pc = "restart" -> 3 + (row * n_dist + j) * PairSpan + 4 + k
      [] pc = "cholesky" -> Ended - 1
      [] OTHER -> Ended

\* C2: a construction is under way, ready or failed; each of its steps
\* brings it nearer its end, so it ends, ready or failed, and stays as it
\* ended; an engine is ready only if every marginal had finite moments
\* (otherwise the construction ends in the invalid-moments error); and the
\* operations are invoked on ready engines only
C2_Lifecycle ==
    /\ []Lifecycle
    /\ [][(pc \in Stages) => (Progress < Progress' /\ Progress' <= Ended)]_vars
    /\ [][(pc \in Terminal) => (pc' = pc /\ err' = err)]_vars

\* a construction was ended by the invalid-moments error
C2_Witness == pc = "failed" /\ err = "InvalidMoments" /\ ~FiniteMoments(Marginals)

\* C3: once an engine is ready it stays ready, no step changes its
\* marginals, Rho_X, Rho_Z or A, the factor is never computed again, and a
\* call (one that errs too) leaves the caller's array as it was
C3_Frame ==
    [][pc = "ready" => /\ pc' = "ready"
                       /\ engine' = engine
                       /\ nchol = 1 /\ nchol' = 1
                       /\ (last' # NoCall => arg' = arg)]_vars

\* a call on a ready engine ended in an error
C3_Witness == pc = "ready" /\ last.op = "U2X" /\ last.err = "ShapeError" /\ arg # NoArr

\* C4, as stated: in a ready engine every pair of distinct indices with
\* Rho_X = 0 has Rho_Z = 0, both ways round
C4_AsStated ==
    pc = "ready" =>
        \A a \in 0..(n_dist - 1) : \A b \in 0..(n_dist - 1) :
            (a # b /\ InShape(Rho_X, a, b) /\ At(Rho_X, a, b) = 0)
                => At(Rho_Z, a, b) = 0 /\ At(Rho_Z, b, a) = 0

\* a ready engine in which the restart loop stored a root at a pair whose
\* Rho_X is 0
C4_Witness ==
    /\ pc = "ready" /\ n_dist = 3
    /\ At(Rho_X, 0, 2) = 0 /\ At(Rho_Z, 0, 2) # 0
    /\ stored.by = "fsolve(random)" /\ stored.at = <<0, 2>> /\ stored.for = <<1, 2>>

NormalFamily(m) == m.Name \in {"normal", "standardnormal"}

\* C5, as stated: in a ready engine every pair of normal-family marginals
\* has Rho_Z = Rho_X, and root-finding never begins for such a pair
C5_AsStated ==
    /\ pc = "ready" =>
          \A a \in 0..(n_dist - 1) : \A b \in 0..(n_dist - 1) :
              (/\ a # b /\ InShape(Rho_X, a, b)
               /\ NormalFamily(Marginals[a + 1]) /\ NormalFamily(Marginals[b + 1]))
                  => At(Rho_Z, a, b) = At(Rho_X, a, b)
    /\ pc = "brentq" =>
          ~(NormalFamily(Marginals[pair[1] + 1]) /\ NormalFamily(Marginals[pair[2] + 1]))

\* a ready engine of two normal marginals with a small correlation that
\* Rho_Z does not hold
C5_Witness ==
    /\ pc = "ready" /\ n_dist = 2
    /\ Marginals[1].Name = "normal" /\ Marginals[2].Name = "normal"
    /\ Rho_X = Sym2(Tiny) /\ Rho_Z = Identity(2)

\* every marginal is of a continuous family
Continuous(Ms) ==
    \A q \in 1..Len(Ms) :
        Ms[q].Name \in {"standardnormal", "normal", "lognormal", "uniform", "pareto"}

\* x lies inside the support of the marginal m
InSupport(m, x) ==
    CASE m.Name = "uniform" -> 0 < x /\ x < One
      [] m.Name = "lognormal" -> 0 < x
      [] OTHER -> TRUE

\* x holds one point as a vector of d entries or n points as an n x d
\* array, every coordinate inside the support of its marginal
PointsInSupport(Ms, x) ==
    /\ x.shape = <<Len(Ms)>> \/ (Len(x.shape) = 2 /\ x.shape[2] = Len(Ms))
    /\ \A q \in 1..Len(x.data) : InSupport(Ms[((q - 1) % Len(Ms)) + 1], x.data[q])

RoundTripTol == One \div 20000

\* y holds the points of x, up to the tolerance, in the shape of x without
\* its axes of length 1
Reproduces(y, x) ==
    /\ y.shape = Squeeze(x).shape
    /\ Len(y.data) = Len(x.data)
    /\ \A q \in 1..Len(x.data) :
          IsNum(y.data[q]) /\ Abs(y.data[q] - x.data[q]) <= RoundTripTol

\* C6, as stated: on a ready engine of continuous marginals, X2U of points
\* inside the supports returns, and U2X of what it returned reproduces the
\* points
C6_AsStated ==
    /\ (last.op = "X2U" /\ Continuous(Marginals) /\ PointsInSupport(Marginals, arg))
           => last.err = ""
    /\ (last.op = "U2X" /\ orig # NoArr /\ Continuous(Marginals)
                        /\ PointsInSupport(Marginals, orig))
           => last.err = "" /\ Reproduces(last.ret, orig)

\* what is left of C6 for engines of two or more marginals
C6_BeyondOne ==
    n_dist >= 2 => C6_AsStated

\* X2U of a point inside the support failed on an engine of one marginal
C6_Witness ==
    /\ pc = "ready" /\ n_dist = 1 /\ Marginals[1].Name = "normal"
    /\ last.op = "X2U" /\ arg.shape = <<1>> /\ last.err = "ValueError"

\* an engine with a marginal of one of the four discrete families
WithDiscrete ==
    \E q \in 1..n_dist :
        \/ Marginals[q].Name = "binomial"
        \/ Marginals[q].Name = "geometric"
        \/ Marginals[q].Name = "negativebinomial"
        \/ Marginals[q].Name = "poisson"

\* C7, as stated: X2U, pdf and cdf on an engine with a discrete marginal end
\* in the unsupported-operation error and return nothing
C7_AsStated ==
    (WithDiscrete /\ last.op \in {"X2U", "pdf", "cdf"})
        => last.err = "UnsupportedOperation" /\ last.ret = NoArr /\ last.J = << >>

\* C7, amended: X2U and pdf on an engine with a discrete marginal end in the
\* unsupported-operation error, whatever the input, and return nothing; cdf
\* has no such check and ends as it does on any engine, with a value or with
\* the shape error
C7_DiscreteRefused ==
    /\ (WithDiscrete /\ last.op \in {"X2U", "pdf"})
           => last.err = "UnsupportedOperation" /\ last.ret = NoArr /\ last.J = << >>
    /\ (WithDiscrete /\ last.op = "cdf")
           => /\ last.err \in {"", "ShapeError"}
              /\ (last.err = "") = (last.ret # NoArr)

\* pdf was refused on an engine with a Poisson marginal
C7_Witness ==
    /\ pc = "ready" /\ WithDiscrete
    /\ last.op = "pdf" /\ last.err = "UnsupportedOperation"

\* x has more than two dimensions or, taken as an array of two dimensions, a
\* second dimension other than d
MisShaped(x, d) ==
    Len(x.shape) > 2 \/ AtLeast2d(x).shape[2] # d

\* as MisShaped, but a single column is one point when d is not 1: the
\* length of the column is then what has to be d
BadShape(x, d) ==
    \/ Len(x.shape) > 2
    \/ /\ Len(x.shape) <= 2
       /\ IF AtLeast2d(x).shape[2] = 1 /\ d # 1
          THEN AtLeast2d(x).shape[1] # d
          ELSE AtLeast2d(x).shape[2] # d

\* C8, as stated: X2U, U2X, pdf and cdf end in the shape error, with
\* nothing computed, when the input has more than two dimensions or a
\* second dimension other than d
C8_AsStated ==
    (last.op \in {"X2U", "U2X", "pdf", "cdf"} /\ MisShaped(arg, n_dist))
        => last.err = "ShapeError" /\ last.ret = NoArr /\ last.J = << >>

\* C8, amended: X2U and pdf on an engine with a discrete marginal end in the
\* unsupported-operation error before the shape is looked at; otherwise
\* X2U, U2X, pdf and cdf end in the shape error, with nothing computed,
\* exactly when the input has more than two dimensions or, a single column
\* being taken as one point when d is not 1, a second dimension other than d
C8_ShapeRefused ==
    last.op \in {"X2U", "U2X", "pdf", "cdf"} =>
        IF WithDiscrete /\ last.op \in {"X2U", "pdf"}
        THEN last.err = "UnsupportedOperation"
        ELSE /\ BadShape(arg, n_dist) <=> last.err = "ShapeError"
             /\ last.err = "ShapeError" => last.ret = NoArr /\ last.J = << >>

\* cdf was refused for an input of three dimensions
C8_Witness ==
    /\ pc = "ready" /\ last.op = "cdf"
    /\ Len(arg.shape) = 3 /\ last.err = "ShapeError"

\* L is a square matrix of numbers with nothing above its diagonal
LowerTriangular(L) ==
    /\ IsSquare(L)
    /\ \A r \in 0..(NRows(L) - 1) : \A c \in 0..(NRows(L) - 1) :
          IsNum(At(L, r, c)) /\ (c > r => At(L, r, c) = 0)

FactorTol == One \div 100000

\* L . L^T is M, entry by entry, up to the tolerance
Factors(L, M) ==
    /\ NRows(L) = NRows(M) /\ IsSquare(M)
    /\ \A r \in 0..(NRows(M) - 1) : \A c \in 0..(NRows(M) - 1) :
          /\ IsNum(At(M, r, c))
          /\ Abs(DotRows(L, r, c, NRows(L)) - At(M, r, c)) <= FactorTol

\* every entry of M is a number of [-1, 1]
WithinUnit(M) ==
    \A r \in 0..(NRows(M) - 1) : \A c \in 0..(NCols(M) - 1) :
        IsNum(At(M, r, c)) /\ Abs(At(M, r, c)) <= One

\* C9, as stated: every ready engine holds a lower-triangular A with
\* A . A^T = Rho_Z, and no engine is ready with a Rho_Z that has a
\* non-number or an entry outside [-1, 1]
C9_AsStated ==
    pc = "ready" => LowerTriangular(A) /\ Factors(A, Rho_Z) /\ WithinUnit(Rho_Z)

\* an engine of two lognormal marginals is ready with a Rho_Z and a factor
\* that hold a non-number
C9_Witness ==
    /\ pc = "ready" /\ n_dist = 2
    /\ Marginals[1].Name = "lognormal" /\ Marginals[2].Name = "lognormal"
    /\ At(Rho_Z, 0, 1) = NaN /\ At(A, 1, 1) = NaN

\* the strategies of one pair in their order
Chain ==
    <<"brentq", "fsolve(Rho_X)", "fsolve(-Rho_X)">> \o [q \in 1..Restarts |-> "fsolve(random)"]

\* C10, as stated: the root-finders invoked for a pair are the head of the
\* chain; a root is stored by the call that found it, for the pair of the
\* loops, at that pair; and no construction ends because the Brent search
\* did not converge
C10_AsStated ==
    /\ Len(calls) <= Len(Chain) /\ calls = SubSeq(Chain, 1, Len(calls))
    /\ stored.by # "" => stored.at = stored.for
    /\ err # "BrentqError"

\* a construction ended by the Brent search, its first root-finder call
C10_Witness ==
    pc = "failed" /\ err = "BrentqError" /\ calls = <<"brentq">>

\* a construction that ended in the restart loop of a pair: its last
\* root-finder call was a random restart and no later stage ended it
EndedInRestarts ==
    /\ pc = "failed" /\ calls # << >>
    /\ calls[Len(calls)] = "fsolve(random)"
    /\ err # "TransformedNotPositiveDefinite"

\* C11, as stated: a construction that the restart loop ended has tried the
\* whole chain and ends in the unsolvable-pair error
C11_AsStated ==
    EndedInRestarts => err = "NatafNotSolved" /\ Len(calls) = Len(Chain)

\* a construction of two marginals ended by an index error in its third
\* random restart, none of the earlier calls having converged
C11_Witness ==
    /\ pc = "failed" /\ err = "IndexError" /\ n_dist = 2
    /\ calls = SubSeq(Chain, 1, 6) /\ k = 2 /\ Rho_Z = Identity(2)

\* the exception class each error is raised with: the raise statements of
\* lines 98, 107, 112, 117, 249, 258, 294, 301, 306 (and their likes in U2X,
\* pdf and cdf) all raise RuntimeError, as brentq does when it does not
\* converge; the others are raised by the indexing and by np.linalg.solve
ExcClass(e) ==
    CASE e \in {"InvalidMoments", "NotPositiveDefinite", "NotSymmetric",
                "NotUnitDiagonal", "NatafNotSolved", "TransformedNotPositiveDefinite",
                "UnsupportedOperation", "ShapeError", "BrentqError"} -> "RuntimeError"
      [] e = "IndexError" -> "IndexError"
      [] e = "ValueError" -> "ValueError"
      [] OTHER -> ""

\* the error of the taxonomy that a raised error is
Category(e) ==
    CASE e = "InvalidMoments" -> "invalid-moments"
      [] e \in {"NotPositiveDefinite", "NotSymmetric", "NotUnitDiagonal"}
            -> "invalid-correlation"
      [] e = "TransformedNotPositiveDefinite" -> "non-invertible-correlation"
      [] e = "NatafNotSolved" -> "unsolvable-pair"
      [] e = "UnsupportedOperation" -> "unsupported-operation"
      [] e = "ShapeError" -> "shape"
      [] OTHER -> ""

TaxonomyErrors ==
    {"InvalidMoments", "NotPositiveDefinite", "NotSymmetric", "NotUnitDiagonal",
     "TransformedNotPositiveDefinite", "NatafNotSolved", "UnsupportedOperation",
     "ShapeError"}

\* the errors of the taxonomy that have ended the construction or the last
\* call
RaisedNow == {err, last.err} \cap TaxonomyErrors

\* C12, as stated: an error of the taxonomy is raised with a kind that no
\* error of another category of the taxonomy is raised with, and a call that
\* ended in an error returned nothing
C12_AsStated ==
    /\ \A e \in RaisedNow : \A e2 \in TaxonomyErrors :
          ExcClass(e2) = ExcClass(e) => Category(e2) = Category(e)
    /\ last.err # "" => last.ret = NoArr /\ last.J = << >>

\* what holds of C12: every error of the taxonomy is raised, as a
\* RuntimeError, and a call that ended in an error returned nothing
C12_Raised ==
    /\ \A e \in RaisedNow : ExcClass(e) = "RuntimeError"
    /\ last.err # "" => last.ret = NoArr /\ last.J = << >>

\* pdf ended in the shape error, a RuntimeError as the invalid-moments
\* error is
C12_Witness ==
    /\ pc = "ready" /\ last.op = "pdf" /\ last.err = "ShapeError"
    /\ ExcClass(last.err) = ExcClass("InvalidMoments")

\* a log_pdf_eval call on a Uniform / Halfnormal object has returned or raised
UniformCalled == rv.class = "Uniform" /\ got.op = "log_pdf_eval"
HalfnormalCalled == rv.class = "Halfnormal" /\ got.op = "log_pdf_eval"
Inside == rv.lower <= got.x /\ got.x <= rv.upper

\* C13, as stated: Uniform.log_pdf_eval never raises, gives
\* log(1 / (upper - lower)) at every x of [lower, upper] and -inf at every
\* other x (0 at 0.5 and -inf at 1.5 for Uniform(0, 1)); Halfnormal.log_pdf_eval
\* gives -inf at every x < 0 without raising.
C13_AsStated ==
    /\ UniformCalled =>
          /\ got.err = ""
          /\ Inside => got.ret = Log(Div(One, rv.upper - rv.lower))
          /\ ~Inside => got.ret = NegInf
          /\ (rv.lower = 0 /\ rv.upper = One /\ got.x = Half) => got.ret = 0
    /\ (HalfnormalCalled /\ got.x < 0) => (got.err = "" /\ got.ret = NegInf)

\* the same on the objects with lower < upper
C13_Consistent ==
    (UniformCalled /\ rv.lower >= rv.upper) \/ C13_AsStated

\* Uniform(1, 0) asked at 0.5, which lies outside every interval, answers nan
C13_Witness ==
    /\ UniformCalled /\ rv.lower = One /\ rv.upper = 0 /\ got.x = Half
    /\ got.err = "" /\ got.ret = NaN

\* an object bounded below and above, and its bounds
Bounded == rv.class \in {"Uniform", "TrunNormal", "TruncatedExponentialDist"}
LowerBound == IF rv.class = "TrunNormal" THEN rv.a ELSE rv.lower
UpperBound == IF rv.class = "TrunNormal" THEN rv.b ELSE rv.upper

\* C14, as stated: no Uniform, TrunNormal or TruncatedExponentialDist object
\* with lower bound >= upper bound comes out of its constructor, so no
\* sampling or density call is ever made on one.
C14_AsStated == Bounded => LowerBound < UpperBound

\* a TrunNormal with a = 1 >= b = 0 was made and answered a density call
C14_Witness ==
    /\ rv.class = "TrunNormal" /\ rv.a = One /\ rv.b = 0
    /\ got.op = "log_pdf_eval" /\ got.err = "" /\ got.ret = NaN

\* a call of the given method on a DiscreteDist has returned or raised
DiscreteCalled(op) == rv.class = "DiscreteDist" /\ got.op = op

\* the indices m with p_1 + ... + p_(m-1) <= Phi(u), and the largest of them
Candidates(u) ==
    {m \in 1..Len(rv.values) : SumTo(rv.probabilities, m - 1) <= NormCdf(u)}
Largest(u) == CHOOSE m \in Candidates(u) : \A n \in Candidates(u) : n <= m

\* the index of a support value
IndexOf(v) == CHOOSE m \in 1..Len(rv.values) : rv.values[m] = v

\* two logarithms agree up to the rounding of the two ways to compute them
SameLog(a, b) == IF IsNum(a) /\ IsNum(b) THEN Abs(a - b) <= Tiny ELSE a = b

\* C15: DiscreteDist.U2X(u) maps every component u to v_m, m the largest
\* index with p_1 + ... + p_(m-1) <= Phi(u): such an index always exists, the
\* result is a member of the support and its index does not decrease as u
\* grows; log_pdf_eval(u) gives log(p_m) of the value selected.
C15_AsStated ==
    /\ DiscreteCalled("U2X") =>
          /\ got.err = ""
          /\ Len(got.ret) = Len(got.x)
          /\ \A q \in 1..Len(got.x) :
                /\ Candidates(got.x[q]) # {}
                /\ got.ret[q] = rv.values[Largest(got.x[q])]
                /\ \E m \in 1..Len(rv.values) : got.ret[q] = rv.values[m]
          /\ \A q, r \in 1..Len(got.x) :
                got.x[q] <= got.x[r] => IndexOf(got.ret[q]) <= IndexOf(got.ret[r])
    /\ DiscreteCalled("log_pdf_eval") =>
          /\ got.err = ""
          /\ Len(got.ret) = Len(got.x)
          /\ \A q \in 1..Len(got.x) :
                SameLog(got.ret[q], Log(rv.probabilities[Largest(got.x[q])]))

\* weights (0.5, 0.5, 1) on (1, 2, 5): U2X of (0.5, -2) is (5, 1), and
\* log_pdf_eval of (-2, 6) is (log 0.25, log 0.5)
C15_Witness ==
    /\ rv.class = "DiscreteDist" /\ rv.values = <<One, 2 * One, 5 * One>>
    /\ rv.weights = <<Half, Half, One>>
    /\ \/ got.op = "U2X" /\ got.x = <<Half, 0 - 2 * One>>
          /\ got.ret = <<5 * One, One>>
       \/ got.op = "log_pdf_eval" /\ got.x = <<0 - 2 * One, 6 * One>>
          /\ SameLog(got.ret[1], Ln(One \div 4)) /\ SameLog(got.ret[2], Ln(Half))

\* a call of the given method on a ConstantInteger has returned or raised
ConstantCalled(op) == rv.class = "ConstantInteger" /\ got.op = op

\* C16: a ConstantInteger gives log-density 0 at every x, x different from
\* its value included, and generate_rns(N) gives exactly N draws, each equal to
\* the value.
C16_AsStated ==
    /\ ConstantCalled("log_pdf_eval") => (got.err = "" /\ got.ret = 0)
    /\ ConstantCalled("generate_rns") =>
          /\ got.err = ""
          /\ Len(got.ret) = got.x
          /\ \A q \in 1..Len(got.ret) : got.ret[q] = rv.value

\* ConstantInteger(3): log-density 0 at 0.5, or three draws of 3
C16_Witness ==
    /\ rv.class = "ConstantInteger" /\ rv.value = 3 * One
    /\ \/ got.op = "log_pdf_eval" /\ got.x = Half /\ got.ret = 0
       \/ got.op = "generate_rns" /\ got.x = MaxN
          /\ got.ret = [q \in 1..MaxN |-> 3 * One]

\* the n vectors that random drew, as the [n, d] array a caller gives U2X
DrawnArray == FromRows(Len(last.U), n_dist, last.U)

\* C17: the result of random(n) is U2X, without Jacobian, of the n vectors
\* of d standard normals that it drew, for every n >= 1 and every d >= 1.
C17_AsStated ==
    (pc = "ready" /\ last.op = "random") =>
        /\ last.err = ""
        /\ U2XResult(Marginals, A, DrawnArray, FALSE).err = ""
        /\ last.ret = U2XResult(Marginals, A, DrawnArray, FALSE).ret

\* two samples of a correlated pair (uniform, normal)
C17_Witness ==
    /\ pc = "ready" /\ last.op = "random" /\ last.err = ""
    /\ Marginals = <<UniformDist, NormalDist>> /\ A # Identity(2)
    /\ Len(last.U) = 2 /\ last.ret.shape = <<2, 2>>

\* what the call of a caller returns when it runs alone on the engine
Alone(f) ==
    CASE f.op = "X2U" -> Outcome("X2U", f.jac, X2UResult(Marginals, A, f.x, f.jac))
      [] f.op = "U2X" -> Outcome("U2X", f.jac, U2XResult(Marginals, A, f.x, f.jac))
      [] f.op = "pdf" -> Outcome("pdf", FALSE, PdfResult(Marginals, Rho_Z, f.x))

\* every X2U, U2X and pdf call that has returned gave what it gives alone
AsAlone ==
    \A c \in Callers :
        (flight[c].at = "returned" /\ flight[c].op \in {"X2U", "U2X", "pdf"}) =>
            flight[c].out = Alone(flight[c])

\* C18: with several callers in X2U, U2X, pdf, cdf and random on one ready
\* engine, under every interleaving no step of a call changes the engine, and
\* each X2U, U2X and pdf call returns what it would return run alone.
C18_AsStated ==
    /\ [][(pc = "ready") => UNCHANGED engine]_vars
    /\ []AsAlone

\* one caller has its X2U result while the other is in the middle of U2X
C18_Witness ==
    /\ pc = "ready"
    /\ flight["a"].at = "returned" /\ flight["a"].op = "X2U"
    /\ flight["a"].out.err = "" /\ flight["a"].out.ret.shape = <<MaxPts, 2>>
    /\ flight["b"].at = "checked" /\ flight["b"].op = "U2X"

\* C19, as stated: the seeds of the random restarts of a pair come from a
\* generator that only this pair draws from, so the restart numbered k of a
\* pair takes the value numbered k of its generator, whatever other pairs drew.
C19_AsStated == (pc = "restart") => drawn = k

\* the pair (0, 2) is at its first restart and the generator of np.random.rand
\* has already given a seed to the pair (0, 1)
C19_Witness ==
    /\ pc = "restart" /\ k = 0 /\ drawn > 0
    /\ pair = <<0, 2>> /\ stored.for = <<0, 1>> /\ stored.by = "fsolve(random)"

\* C20, as stated: an engine of d marginals is ready only if the correlation
\* matrix it was given has shape [d, d]; with any other shape the construction
\* fails.
C20_AsStated == (pc = "ready") => (NRows(Rho_X) = n_dist /\ NCols(Rho_X) = n_dist)

\* a ready engine of one marginal made with a 2 x 2 correlation matrix
C20_Witness ==
    /\ pc = "ready" /\ n_dist = 1 /\ Rho_X = Sym2(Half)
    /\ Rho_Z = Identity(1) /\ A = Identity(1)

\* the closed form that the pair (a, b) of the marginals should get
LogNormal(m) == m.Name = "lognormal"
ClosedPair(ma, mb) ==
    \/ NormalFamily(ma) /\ LogNormal(mb)
    \/ LogNormal(ma) /\ NormalFamily(mb)
    \/ LogNormal(ma) /\ LogNormal(mb)
ClosedForm(ma, mb, rho) ==
    IF LogNormal(ma) /\ LogNormal(mb)
    THEN LogNormalLogNormal(rho, CoefVar(ma), CoefVar(mb))
    ELSE NormalLogNormal(rho, CoefVar(IF LogNormal(ma) THEN ma ELSE mb))

\* C21, as stated: a pair with nonzero Rho_X of a normal-family marginal
\* (normal or standard normal) and a lognormal one, in either order, or of two
\* lognormal ones, never reaches the root-finder and has its closed form at
\* Rho_Z[i, j] and at Rho_Z[j, i] in the ready engine.
C21_AsStated ==
    /\ pc = "brentq" => ~ClosedPair(Marginals[pair[1] + 1], Marginals[pair[2] + 1])
    /\ pc = "ready" =>
          \A a \in 0..(n_dist - 1) : \A b \in 0..(n_dist - 1) :
              (/\ a < b /\ InShape(Rho_X, a, b) /\ At(Rho_X, a, b) # 0
               /\ ClosedPair(Marginals[a + 1], Marginals[b + 1]))
                  => /\ At(Rho_Z, a, b) =
                          ClosedForm(Marginals[a + 1], Marginals[b + 1], At(Rho_X, a, b))
                     /\ At(Rho_Z, b, a) = At(Rho_Z, a, b)

\* the step of the fill that handles a pair named normal and lognormal, or
\* lognormal twice, stores the closed form on both sides and calls no solver
C21_NamedNormal ==
    [][(/\ pc = "pair" /\ InShape(Rho_X, i, j) /\ At(Rho_X, i, j) # 0
        /\ ClosedPair(Marginals[i + 1], Marginals[j + 1])
        /\ "standardnormal" \notin {Marginals[i + 1].Name, Marginals[j + 1].Name})
       => (/\ pc' # "brentq"
           /\ At(Rho_Z', i, j) =
                ClosedForm(Marginals[i + 1], Marginals[j + 1], At(Rho_X, i, j))
           /\ At(Rho_Z', j, i) = At(Rho_Z', i, j))]_vars

\* the root-finder is started for a standard normal and a lognormal marginal
C21_Witness ==
    /\ pc = "brentq" /\ pair = <<0, 1>>
    /\ Marginals[1].Name = "standardnormal" /\ Marginals[2].Name = "lognormal"
    /\ At(Rho_X, 0, 1) = Half

\* the stages in which the root of a pair is sought
Solving == {"brentq", "fsolve", "fsolve-negated", "restart"}

\* C22: the root-finding of a pair makes at most 13 solver calls (brentq,
\* fsolve at Rho_X, fsolve at -Rho_X, at most 10 random restarts), in this
\* order, and ends with a stored root or with the failure of the construction;
\* every step of a construction brings it nearer its end, so it terminates.
C22_Bounded ==
    /\ [](Len(calls) <= 13 /\ Len(calls) <= Len(Chain)
          /\ calls = SubSeq(Chain, 1, Len(calls)))
    /\ [][(pc \in Solving /\ pc' \notin Solving) =>
             \/ pc' = "failed" /\ err' # ""
             \/ stored'.for = <<row, j>> /\ stored'.by = calls'[Len(calls')]]_vars
    /\ [][(pc \in Stages) => (Progress < Progress' /\ Progress' <= Ended)]_vars

\* the second random restart of a pair, its fifth solver call, gave the root
\* and the fill went on
C22_Witness ==
    /\ pc \in {"pair", "cholesky"} /\ Len(calls) = 5
    /\ stored.by = "fsolve(random)" /\ stored.for = <<0, 1>>

\* the phases of a construction: validation, fill, factorization, end
Validating == {"moments", "correlation"}
Filling == {"quadrature", "pair"} \cup Solving
Phase(at) ==
    IF at \in Validating THEN 1
    ELSE IF at \in Filling THEN 2
    ELSE IF at = "cholesky" THEN 3
    ELSE 4

\* nothing of the fill has happened / nothing of the factorization has
NotFilled == Rho_Z = << >> /\ calls = << >> /\ stored = NoStore /\ nquad = 0
NotFactored == A = << >> /\ nchol = 0

\* the errors of the validation
ValidationErrors == {"InvalidMoments", "NotPositiveDefinite", "NotSymmetric", "NotUnitDiagonal"}

\* C23: the validation of the moments and of Rho_X is over before any entry
\* of Rho_Z is computed and any solver is called; the fill has handled the
\* last pair of its loops before Rho_Z is factorized; the phases follow one
\* another in this order, and after a failure no later phase starts.
C23_Phases ==
    /\ [](pc \in Validating => (NotFilled /\ NotFactored))
    /\ [](pc \in Filling => NotFactored)
    /\ []((pc = "failed" /\ err \in ValidationErrors) => (NotFilled /\ NotFactored))
    /\ [](pc = "failed" => NotFactored)
    /\ [][Phase(pc) <= Phase(pc')]_vars
    /\ [][(pc \in Filling /\ pc' = "cholesky") =>
             \/ pc = "quadrature"
             \/ j + 1 >= n_dist /\ row + 2 >= n_dist]_vars
    /\ [][(pc = "failed") =>
             (pc' = pc /\ Rho_Z' = Rho_Z /\ calls' = calls /\ nquad' = nquad
              /\ nchol' = nchol /\ A' = A)]_vars

\* three marginals: the last pair, (1, 2), was solved and Rho_Z is about to
\* be factorized
C23_Witness ==
    /\ pc = "cholesky" /\ n_dist = 3 /\ stored.for = <<1, 2>>
    /\ nchol = 0 /\ A = << >> /\ nquad = 1

\* C24, as stated: the quadrature table is computed once in a process,
\* however many engines are constructed and pairs solved, and is then only read.
C24_AsStated == nquad <= 1

\* within one construction the table is computed once, before the first pair,
\* and no step of the fill computes it again
C24_OncePerEngine ==
    [][(pc \in (Stages \ {"quadrature"})) => (nquad' = nquad)]_vars

\* a second construction has computed the table a second time
C24_Witness == nquad = 2 /\ pc = "brentq" /\ pair = <<0, 1>>

\* the product of two square matrices, given as sequences of rows
MatProd(P, Q) ==
    [r \in 1..Len(P) |-> [c \in 1..Len(P) |->
        Total([t \in 1..Len(P) |-> Mul(P[r][t], Q[t][c])])]]

JacTol == One \div 1000

\* the matrices P and Q agree entry by entry, up to the tolerance
Near(P, Q) ==
    /\ Len(P) = Len(Q)
    /\ \A r \in 1..Len(P) :
          /\ Len(P[r]) = Len(Q[r])
          /\ \A c \in 1..Len(P[r]) :
                IsNum(P[r][c]) /\ IsNum(Q[r][c]) /\ Abs(P[r][c] - Q[r][c]) <= JacTol

\* the diagonal matrix with the given diagonal
Diagonal(g) == [r \in 1..Len(g) |-> [c \in 1..Len(g) |-> IF r = c THEN g[r] ELSE 0]]

\* the first point of the array x given to an engine of d marginals
FirstPoint(x, d) == [c \in 1..d |-> Get(ShapeChecked(x, d).X, 0, c - 1)]

\* z_i of the first point x of X2U, and D[i, i]
FirstZ(x) == [c \in 1..Len(x) |-> NormPpf(MargCdf(Marginals[c], x[c]))]
DensityRatio(x, z) ==
    [c \in 1..Len(x) |-> Div(MargPdf(Marginals[c], x[c]), NormPdf(z[c]))]

\* z = A u of the first point u of U2X, its x, and E[i, i]
FirstX(z) == [c \in 1..Len(z) |-> MargIcdf(Marginals[c], NormCdf(z[c]))]
InverseRatio(x, z) ==
    [c \in 1..Len(x) |-> Div(NormPdf(z[c]), MargPdf(Marginals[c], x[c]))]

\* a call with the Jacobian asked for, on points the method takes
X2UJacobian ==
    /\ pc = "ready" /\ last.op = "X2U" /\ last.jac /\ Continuous(Marginals)
    /\ PointsInSupport(Marginals, arg)
U2XJacobian ==
    /\ pc = "ready" /\ last.op = "U2X" /\ last.jac /\ Continuous(Marginals)
    /\ ~BadShape(arg, n_dist)
    /\ \A q \in 1..Len(arg.data) : IsNum(arg.data[q])

\* C25, as stated: with the Jacobian asked for, X2U returns A^(-1) D, that
\* is A J = D, with D[i, i] = pdf_i(x_i) / phi(z_i) at the first point; U2X
\* returns E A with E[i, i] = phi(z_i) / pdf_i(x_i) at the first point; and at
\* the matched point X = U2X(U) the product of the two is the identity.
C25_AsStated ==
    /\ X2UJacobian =>
          /\ last.err = ""
          /\ Near(MatProd(A, last.J),
                  Diagonal(DensityRatio(FirstPoint(arg, n_dist),
                                        FirstZ(FirstPoint(arg, n_dist)))))
    /\ U2XJacobian =>
          /\ last.err = ""
          /\ last.J = MatProd(Diagonal(InverseRatio(
                                  FirstX(MatVec(A, FirstPoint(arg, n_dist))),
                                  MatVec(A, FirstPoint(arg, n_dist)))), A)
          /\ X2UResult(Marginals, A, last.ret, TRUE).err = ""
          /\ Near(MatProd(X2UResult(Marginals, A, last.ret, TRUE).J, last.J),
                  Identity(n_dist))

\* what is left of C25 for engines of two or more marginals
C25_BeyondOne == n_dist >= 2 => C25_AsStated

\* X2U asked for its Jacobian on an engine of one marginal
C25_Witness ==
    /\ X2UJacobian /\ n_dist = 1 /\ last.err = "ValueError" /\ last.J = << >>

\* both Jacobians computed on a correlated engine of two marginals
C25_CorrelatedX2U ==
    /\ X2UJacobian /\ n_dist = 2 /\ last.err = "" /\ A[2][1] # 0
C25_CorrelatedU2X ==
    /\ U2XJacobian /\ n_dist = 2 /\ last.err = "" /\ A[2][1] # 0

\* Rho_Z is a d x d matrix of the shape of Rho_X, symmetric, with a unit
\* diagonal
ShapedAsRhoX ==
    /\ Len(Rho_Z) = n_dist /\ \A r \in 1..Len(Rho_Z) : Len(Rho_Z[r]) = n_dist
    /\ Len(Rho_X) = n_dist /\ \A r \in 1..Len(Rho_X) : Len(Rho_X[r]) = n_dist
SymmetricUnit ==
    /\ \A r, c \in 1..Len(Rho_Z) : Rho_Z[r][c] = Rho_Z[c][r]
    /\ \A r \in 1..Len(Rho_Z) : Rho_Z[r][r] = One

\* C26, as stated: in a ready engine Rho_Z has the shape of Rho_X, is
\* symmetric and has a unit diagonal, and no root of the fill is ever stored
\* at a diagonal entry.
C26_AsStated ==
    /\ pc = "ready" => (ShapedAsRhoX /\ SymmetricUnit)
    /\ stored # NoStore => stored.at[1] # stored.at[2]

\* what holds: Rho_Z is symmetric at all times, and as long as the restart
\* loop has not run a root is stored off the diagonal, at its own pair
C26_OffDiagonal ==
    /\ \A r, c \in 1..Len(Rho_Z) : Rho_Z[r][c] = Rho_Z[c][r]
    /\ (stored # NoStore /\ drawn = 0) =>
          (stored.at = stored.for /\ stored.at[1] < stored.at[2])

\* a ready engine whose restart loop stored its root at Rho_Z[1, 1]
C26_Witness ==
    /\ pc = "ready" /\ stored.by = "fsolve(random)" /\ stored.at = <<1, 1>>
    /\ stored.for = <<0, 1>> /\ Rho_Z[1][2] = 0 /\ Rho_Z[2][2] # One

\* the arrays X2U is specified for: n >= 1 points of d coordinates, as an
\* n x d array, on an engine of continuous marginals
TakenByX2U ==
    /\ pc = "ready" /\ last.op = "X2U" /\ Continuous(Marginals)
    /\ Len(arg.shape) = 2 /\ arg.shape[1] >= 1 /\ arg.shape[2] = n_dist
    /\ \A q \in 1..Len(arg.data) : IsNum(arg.data[q])

\* C27, as stated: X2U takes an n x d array for every n >= 1 and d >= 1 and
\* returns one vector of d components per point, without failing on the
\* shape of its intermediate arrays.
C27_AsStated ==
    TakenByX2U =>
        /\ last.err = ""
        /\ Len(last.ret.data) = arg.shape[1] * n_dist

\* what holds: for d >= 2 the call ends without error and returns n * d
\* values; for d = 1 it ends in the ValueError of np.linalg.solve
C27_BeyondOne ==
    TakenByX2U =>
        IF n_dist >= 2
        THEN last.err = "" /\ Len(last.ret.data) = arg.shape[1] * n_dist
        ELSE last.err = "ValueError"

\* X2U given one point, and given two points, on an engine of one marginal
C27_Witness ==
    /\ TakenByX2U /\ n_dist = 1 /\ arg.shape = <<1, 1>> /\ last.err = "ValueError"
C27_SeveralPoints ==
    /\ TakenByX2U /\ n_dist = 1 /\ arg.shape[1] >= 2 /\ last.err = "ValueError"
C27_OnePointOfTwo ==
    /\ TakenByX2U /\ n_dist = 2 /\ arg.shape = <<1, 2>> /\ last.err = ""

\* the constructor is inside the pair loops of lines 148-254
InPairLoops == pc \in {"pair", "brentq", "fsolve", "fsolve-negated", "restart"}

\* C28, as stated: a root is stored at the pair of the loops it was solved
\* for, also when a random restart found it, and the local i is the row of
\* the outer loop throughout the fill, so that the enumeration i < j goes on
\* unchanged after every pair.
C28_AsStated ==
    /\ stored # NoStore => stored.at = stored.for
    /\ InPairLoops => (i = row /\ i < j)
    /\ pc \in Solving => pair = <<row, j>>

\* what holds: all of it as long as no restart pass has run
C28_BeforeRestart == drawn = 0 => C28_AsStated

\* after a restart for the pair (0, 1) of three marginals found its root on
\* its second pass, the root was stored at [1, 1] and the fill goes on with
\* the pair (1, 2) while the outer loop is still in row 0
C28_Witness ==
    /\ pc = "pair" /\ n_dist = 3 /\ row = 0 /\ i = 1 /\ j = 2
    /\ stored = [at |-> <<1, 1>>, for |-> <<0, 1>>, by |-> "fsolve(random)"]

\* the fill of lines 147-254 is over, for a Rho_X of the engine's shape
FillOver == pc \in {"cholesky", "ready"} /\ NRows(Rho_X) = n_dist /\ NCols(Rho_X) = n_dist

\* the pair (r, c) of the marginals was processed: the pair loops entered
\* their body with i = r and j = c
Processed(r, c) == <<r, c>> \in seen

\* C29, as stated: if the norm of Rho_X - I is at most 1e-5 there is no fill
\* at all (no pair is entered, no solver is called, Rho_Z and A are the
\* identity); if it exceeds 1e-5 every pair with Rho_X[i, j] # 0 is processed.
C29_AsStated ==
    FillOver =>
        IF NormExceeds(Rho_X, n_dist)
        THEN \A r, c \in 0..(n_dist - 1) :
                (r < c /\ At(Rho_X, r, c) # 0) => Processed(r, c)
        ELSE /\ seen = {} /\ calls = << >> /\ stored = NoStore /\ drawn = 0
             /\ Rho_Z = Identity(n_dist)
             /\ pc = "ready" => A = Identity(n_dist)

\* what holds: all of it as long as no restart pass has run
C29_BeforeRestart == drawn = 0 => C29_AsStated

\* a ready engine of three marginals whose pair (0, 2) has Rho_X # 0 and was
\* not processed
C29_Witness ==
    /\ pc = "ready" /\ n_dist = 3 /\ NormExceeds(Rho_X, n_dist)
    /\ At(Rho_X, 0, 2) # 0 /\ ~Processed(0, 2) /\ drawn > 0

\* a ready engine whose Rho_X is the identity up to 1e-5, but not exactly
C29_Skipped ==
    /\ pc = "ready" /\ n_dist >= 2 /\ ~NormExceeds(Rho_X, n_dist)
    /\ Rho_X # Identity(n_dist) /\ A = Identity(n_dist)

\* the first check of lines 92-120 that the arguments of the constructor fail,
\* "" if they pass them all
FirstFailing ==
    IF ~FiniteMoments(Marginals) THEN "InvalidMoments"
    ELSE IF ~Cholesky(Rho_X).ok THEN "NotPositiveDefinite"
    ELSE IF ~IsSymmetric(Rho_X) THEN "NotSymmetric"
    ELSE IF ~HasUnitDiag(Rho_X) THEN "NotUnitDiagonal"
    ELSE ""

\* how many of the requirements of lines 92-120 the arguments miss
MissedCount ==
    (IF FiniteMoments(Marginals) THEN 0 ELSE 1)
    + (IF Cholesky(Rho_X).ok THEN 0 ELSE 1)
    + (IF IsSquare(Rho_X) /\ ~IsSymmetric(Rho_X) THEN 1 ELSE 0)
    + (IF IsSquare(Rho_X) /\ ~HasUnitDiag(Rho_X) THEN 1 ELSE 0)

\* the error and the message of the first check of lines 286-309 (and
\* 390-413) that the array x fails, "" if it passes them all
FirstRefusal(x) ==
    IF HasDiscrete(Marginals) THEN <<"UnsupportedOperation", "">>
    ELSE IF Len(x.shape) > 2 THEN <<"ShapeError", TooManyDimensions>>
    ELSE IF BadShape(x, n_dist) THEN <<"ShapeError", NotOfSizeND>>
    ELSE <<"", "">>

\* C30: a construction ends with the error of the first check it fails in
\* the order moments, positive definiteness, symmetry, unit diagonal, and gets
\* past the checks only if it fails none; X2U and pdf end with the error of
\* the first check they fail in the order discrete marginal, more than two
\* dimensions, second dimension after the transposition of a single column.
C30_FirstFailing ==
    /\ (pc = "failed" /\ err \in ValidationErrors) => err = FirstFailing
    /\ pc \in {"moments", "correlation"} => err = ""
    /\ pc \notin {"moments", "correlation"} =>
          (FirstFailing # "" => (pc = "failed" /\ err = FirstFailing))
    /\ (pc = "ready" /\ last.op \in {"X2U", "pdf"}) =>
          /\ FirstRefusal(arg)[1] # "" => <<last.err, last.msg>> = FirstRefusal(arg)
          /\ FirstRefusal(arg)[1] = "" => last.err \notin {"UnsupportedOperation", "ShapeError"}

\* a construction that misses three requirements or more and ended with the
\* error of the first of them
C30_Witness ==
    /\ pc = "failed" /\ MissedCount >= 3 /\ err = FirstFailing

\* calls that fail two checks: a three-dimensional array given to an engine
\* with a discrete marginal, and one whose second dimension is not d given
\* to a continuous engine
C30_DiscreteFirst ==
    /\ pc = "ready" /\ last.op \in {"X2U", "pdf"} /\ HasDiscrete(Marginals)
    /\ Len(arg.shape) = 3 /\ last.err = "UnsupportedOperation"
C30_DimensionsFirst ==
    /\ pc = "ready" /\ last.op \in {"X2U", "pdf"} /\ ~HasDiscrete(Marginals)
    /\ Len(arg.shape) = 3 /\ arg.shape[2] # n_dist /\ last.msg = TooManyDimensions

====
